---- MODULE Spec2Model ----
(***************************************************************************)
(* State-machine model of the dist-sys-challenge node programs.            *)
(*                                                                         *)
(*   c_*  : the grow-only counter node (src/bin/g-counter.rs) together     *)
(*          with the key-value service it talks to and the network         *)
(*   t_*  : the topology construction of the broadcast nodes               *)
(*          (src/bin/broadcast-e.rs, src/bin/broadcast.rs)                 *)
(*   g_*  : the batching gossip node (src/bin/broadcast-e.rs)              *)
(*                                                                         *)
(* Every specification below moves one group of variables and leaves the   *)
(* other groups at their initial value.                                    *)
(***************************************************************************)
EXTENDS Integers, Sequences, FiniteSets, TLC

VARIABLES
    \* ---- counter node processes (g-counter.rs, struct Node) ----
    c_id,              \* [proc -> node id or None]
    c_msg_id,          \* [proc -> next message id]
    c_unacknowledged,  \* [proc -> sequence of KV requests awaiting a reply]
    c_request_map,     \* [proc -> function: message id -> <<client, request id, delta>>]
    c_crashed,         \* [proc -> the process has panicked]
    \* ---- environment of the counter nodes ----
    c_kv,              \* the value stored under COUNTER in the store, or Absent
    c_net,             \* messages in flight between the nodes and the store
    c_out,             \* replies the nodes have written for clients
    c_reqs,            \* history: client requests the nodes have read
    c_sent,            \* history: KV requests the nodes have originated
    c_retried,         \* history: add requests whose CAS was re-issued after code 22
    c_ignored,         \* history: processes that have ignored a reply as a duplicate
    c_faults,          \* retry ticks, duplications and losses used so far
    \* ---- topology construction ----
    t_input,           \* the node_ids list of the init message
    t_nodes,           \* [index -> Node.nodes after init]
    t_neighbors,       \* [index -> parent, children and Node.neighbors]
    \* ---- gossip nodes (broadcast-e.rs, struct Node) ----
    g_id,
    g_msg_id,
    g_known,
    g_neighbors,
    g_nodes,
    g_next_batch,
    g_unacknowledged,
    g_net,             \* messages in flight between gossip nodes
    g_out,             \* replies written for clients
    g_bcast,           \* history: values clients have broadcast, and where
    g_again,           \* history: how often a batch brought a value already known
    g_acked,           \* history: <<node id, message id>> of the acknowledged messages
    g_first,           \* history: [proc -> function: value -> the id it first came from]
    g_faults,          \* duplications, losses and idle flushes used so far
    \* ---- log node (kafka.rs, struct Node) ----
    k_id,              \* node id or None
    k_msg_id,          \* next message id
    k_logs,            \* function: key -> Log
    k_crashed,         \* the process has panicked
    \* ---- environment of the log node ----
    k_req,             \* the request read last
    k_reply,           \* the reply written to it
    k_count,           \* history: [key -> number of sends handled]
    k_named,           \* history: [key -> offset of the last commit naming it]
    k_queries,         \* polls, commits and lists handled so far
    \* ---- unique-id nodes (guid.rs, struct Node and the spawned handler tasks) ----
    u_id,              \* [proc -> node id or None]
    u_msg_id,          \* [proc -> the AtomicU64 msg_id]
    u_tasks,           \* [proc -> sequence of spawned Generate handler tasks]
    \* ---- Message::send_with_retry (lib.rs) ----
    w_callbacks,       \* the callback table: set of message ids with a waiter
    w_calls,           \* [call -> the state of the call and of its spawned task]
    w_output,          \* the output mutex: the call whose task holds it, or 0
    w_emitted,         \* history: the requests emitted, in order
    \* ---- a cluster of log nodes (kafka.rs, one struct Node per process) ----
    l_id,              \* [proc -> node id or None]
    l_msg_id,          \* [proc -> next message id]
    l_logs,            \* [proc -> function: key -> Log]
    l_acked,           \* history: the send_ok replies written
    l_polls            \* history: the poll_ok replies written

c_vars == <<c_id, c_msg_id, c_unacknowledged, c_request_map, c_crashed,
            c_kv, c_net, c_out, c_reqs, c_sent, c_retried, c_ignored, c_faults>>
t_vars == <<t_input, t_nodes, t_neighbors>>
g_vars == <<g_id, g_msg_id, g_known, g_neighbors, g_nodes, g_next_batch,
            g_unacknowledged, g_net, g_out, g_bcast, g_again, g_acked,
            g_first, g_faults>>
k_vars == <<k_id, k_msg_id, k_logs, k_crashed, k_req, k_reply, k_count, k_named,
            k_queries>>
u_vars == <<u_id, u_msg_id, u_tasks>>
w_vars == <<w_callbacks, w_calls, w_output, w_emitted>>
l_vars == <<l_id, l_msg_id, l_logs, l_acked, l_polls>>
vars == <<c_vars, t_vars, g_vars, k_vars, u_vars, w_vars, l_vars>>

None == "none"
Absent == <<"absent">>

(***************************************************************************)
(* Strings are sequences of one-character strings, so that formatting and  *)
(* parsing of numbers are computed, not assumed.                           *)
(***************************************************************************)
DigitChars == <<"0", "1", "2", "3", "4", "5", "6", "7", "8", "9">>

IsNumeric(c) == \E i \in 1..10 : DigitChars[i] = c

DigitVal(c) == (CHOOSE i \in 1..10 : DigitChars[i] = c) - 1

\* u64::to_string
RECURSIVE U64ToString(_)
U64ToString(n) ==
    IF n < 10 THEN <<DigitChars[n + 1]>>
    ELSE U64ToString(n \div 10) \o <<DigitChars[(n % 10) + 1]>>

ParseErr == -1

RECURSIVE ParseFrom(_, _)
ParseFrom(s, acc) ==
    IF s = <<>> THEN acc
    ELSE IF ~IsNumeric(Head(s)) THEN ParseErr
    ELSE ParseFrom(Tail(s), acc * 10 + DigitVal(Head(s)))

\* str::parse::<u64>: fails on the empty string and on any non-digit.
Parse(s) == IF s = <<>> THEN ParseErr ELSE ParseFrom(s, 0)

RECURSIVE TrimStartNonNumeric(_)
TrimStartNonNumeric(s) ==
    IF s = <<>> \/ IsNumeric(Head(s)) THEN s ELSE TrimStartNonNumeric(Tail(s))

RECURSIVE TakeWhileNumeric(_)
TakeWhileNumeric(s) ==
    IF s = <<>> \/ ~IsNumeric(Head(s)) THEN <<>>
    ELSE <<Head(s)>> \o TakeWhileNumeric(Tail(s))

RECURSIVE TrailingNumeric(_)
TrailingNumeric(s) ==
    IF s = <<>> \/ ~IsNumeric(s[Len(s)]) THEN <<>>
    ELSE TrailingNumeric(SubSeq(s, 1, Len(s) - 1)) \o <<s[Len(s)]>>

\* A parse that reads the last number of the error text, the value the
\* failed request expected.
ParseErrorTextLast(error) == Parse(TrailingNumeric(error))

\* The number the Error 22 arm reads out of the error text.
ParseErrorText(error) == Parse(TakeWhileNumeric(TrimStartNonNumeric(error)))

(***************************************************************************)
(* Bounds of the counter model.                                            *)
(***************************************************************************)
CounterNodes == 2
MaxReqs == 2
MaxDelta == 1
\* The specification with faults runs FaultNodes processes and allows MaxFaults
\* retry ticks, duplications and losses in all.
FaultNodes == 1
MaxFaults == 1

NodeNames == <<"n0", "n1", "n2", "n3", "n4", "n5", "n6", "n7">>
ClientNames == <<"c1", "c2">>

CProcs == 1..CounterNodes
FaultProcs == 1..FaultNodes
Deltas == 0..MaxDelta

COUNTER == <<"c", "o", "u", "n", "t", "e", "r">>
SEQ_KV == "seq-kv"

NoId == 0
NoStr == <<>>
NoDelta == -1
NoNum == -1

\* lib.rs Message/MessageBody/InnerMessageBody flattened to one record shape.
Msg(src, dst, id, irt, type) ==
    [src |-> src, dst |-> dst, id |-> id, in_reply_to |-> irt, type |-> type,
     key |-> NoStr, from |-> NoStr, to |-> NoStr, create |-> FALSE,
     value |-> NoStr, num |-> NoNum, code |-> 0, text |-> NoStr,
     delta |-> NoDelta]

ReadKv(src, id) == [Msg(src, SEQ_KV, id, NoId, "read") EXCEPT !.key = COUNTER]

CasKv(src, id, from, to, create) ==
    [Msg(src, SEQ_KV, id, NoId, "cas") EXCEPT
        !.key = COUNTER, !.from = from, !.to = to, !.create = create]

InitMsg(p) == [Msg(ClientNames[1], NodeNames[p], 1, NoId, "init") EXCEPT !.value = <<NodeNames[p]>>]

(***************************************************************************)
(* Vec helpers used by the acknowledgment arms.                            *)
(***************************************************************************)
\* Index of the first entry whose id equals irt, 0 when there is none
\* (the `for (i, m) in unacknowledged.iter().enumerate()` scans).
FirstMatch(unack, irt) ==
    IF \E i \in 1..Len(unack) : unack[i].id = irt
    THEN CHOOSE i \in 1..Len(unack) :
            /\ unack[i].id = irt
            /\ \A j \in 1..(i - 1) : unack[j].id # irt
    ELSE 0

\* Vec::remove(i)
RemoveAt(s, i) == SubSeq(s, 1, i - 1) \o SubSeq(s, i + 1, Len(s))

\* HashMap::remove, HashMap::insert
MapRemove(f, k) == [x \in DOMAIN f \ {k} |-> f[x]]
MapInsert(f, k, v) == (k :> v) @@ f

SeqToSet(s) == {s[i] : i \in 1..Len(s)}

(***************************************************************************)
(* g-counter.rs, Node::handle_msg.  net0 is what is in flight once the     *)
(* handled message has been read.                                          *)
(***************************************************************************)
\* A panic!/expect/unreachable!/todo!: the process aborts.
CPanic(p, net0) ==
    /\ c_crashed' = [c_crashed EXCEPT ![p] = TRUE]
    /\ c_net' = net0
    /\ UNCHANGED <<c_id, c_msg_id, c_unacknowledged, c_request_map, c_out,
                   c_sent, c_retried, c_ignored>>

\* Mutant of InitKv: the seed writes 1 instead of 0.
InitKvSeedsOne(src, id) == CasKv(src, id, <<"0">>, <<"1">>, TRUE)

\* The seed request built in the Init arm.
InitKv(src, id) == CasKv(src, id, <<"0">>, <<"0">>, TRUE)

\* Push a KV request on unacknowledged, send it, and take the next id.
CPushSend(p, kv_request, for, req, net0) ==
    /\ c_unacknowledged' =
          [c_unacknowledged EXCEPT ![p] = Append(@, kv_request)]
    /\ c_net' = net0 \cup {kv_request}
    /\ c_sent' = c_sent \cup {[m |-> kv_request, for |-> for, req |-> req]}

CHandleInit(p, msg, net0) ==
    /\ c_id[p] = None
    /\ c_id' = [c_id EXCEPT ![p] = msg.value[1]]
    /\ CPushSend(p, InitKv(msg.value[1], c_msg_id[p]), "seed", 0, net0)
    /\ c_out' = c_out \cup
          {Msg(msg.dst, msg.src, c_msg_id[p] + 1, msg.id, "init_ok")}
    /\ c_msg_id' = [c_msg_id EXCEPT ![p] = @ + 2]
    /\ UNCHANGED <<c_request_map, c_crashed, c_retried, c_ignored>>

\* A Read arm without its request_map.insert.
CHandleReadUnmapped(p, msg, net0) ==
    /\ CPushSend(p, ReadKv(c_id[p], c_msg_id[p]), "read", msg.id, net0)
    /\ c_msg_id' = [c_msg_id EXCEPT ![p] = @ + 1]
    /\ UNCHANGED <<c_id, c_crashed, c_out, c_retried, c_ignored, c_request_map>>

CHandleRead(p, msg, net0) ==
    /\ c_request_map' = [c_request_map EXCEPT
          ![p] = MapInsert(@, c_msg_id[p], <<msg.src, msg.id, NoDelta>>)]
    /\ CPushSend(p, ReadKv(c_id[p], c_msg_id[p]), "read", msg.id, net0)
    /\ c_msg_id' = [c_msg_id EXCEPT ![p] = @ + 1]
    /\ UNCHANGED <<c_id, c_crashed, c_out, c_retried, c_ignored>>

\* An Add arm that files the request under the KV request's id instead of the
\* client's.
CHandleAddOwnId(p, msg, net0) ==
    /\ c_request_map' = [c_request_map EXCEPT
          ![p] = MapInsert(@, c_msg_id[p], <<msg.src, c_msg_id[p], msg.delta>>)]
    /\ CPushSend(p, ReadKv(c_id[p], c_msg_id[p]), "add", msg.id, net0)
    /\ c_msg_id' = [c_msg_id EXCEPT ![p] = @ + 1]
    /\ UNCHANGED <<c_id, c_crashed, c_out, c_retried, c_ignored>>

CHandleAdd(p, msg, net0) ==
    /\ c_request_map' = [c_request_map EXCEPT
          ![p] = MapInsert(@, c_msg_id[p], <<msg.src, msg.id, msg.delta>>)]
    /\ CPushSend(p, ReadKv(c_id[p], c_msg_id[p]), "add", msg.id, net0)
    /\ c_msg_id' = [c_msg_id EXCEPT ![p] = @ + 1]
    /\ UNCHANGED <<c_id, c_crashed, c_out, c_retried, c_ignored>>

\* A node that treats a reply it is not waiting for as an error.
CDuplicateAborts(p, net0) == CPanic(p, net0)

\* A reply whose in_reply_to matches nothing in unacknowledged.
CDuplicate(p, net0) ==
    /\ c_net' = net0
    /\ c_ignored' = c_ignored \cup {p}
    /\ UNCHANGED <<c_id, c_msg_id, c_unacknowledged, c_request_map, c_crashed,
                   c_out, c_sent, c_retried>>

\* A CAS that writes the delta alone, without the value read.
CasAfterReadReset(src, id, value, delta) ==
    CasKv(src, id, value, U64ToString(delta), FALSE)

\* The CAS issued once the current value is known (ReadOk arm).
CasAfterRead(src, id, value, delta) ==
    CasKv(src, id, value, U64ToString(Parse(value) + delta), FALSE)

CHandleReadOkKv(p, msg, net0) ==
    LET i == FirstMatch(c_unacknowledged[p], msg.in_reply_to)
        unack1 == RemoveAt(c_unacknowledged[p], i)
        irt == msg.in_reply_to
    IN  IF i = 0 THEN CDuplicate(p, net0)
        ELSE IF irt \notin DOMAIN c_request_map[p] \/ Parse(msg.value) = ParseErr
        THEN CPanic(p, net0)
        ELSE LET entry == c_request_map[p][irt]
                 client_id == entry[1]
                 in_reply_to == entry[2]
                 delta == entry[3]
                 map1 == MapRemove(c_request_map[p], irt)
             IN  IF delta # NoDelta
                 THEN LET kv_request ==
                            CasAfterRead(c_id[p], c_msg_id[p], msg.value, delta)
                      IN  /\ c_request_map' = [c_request_map EXCEPT
                                ![p] = MapInsert(map1, c_msg_id[p],
                                                 <<client_id, in_reply_to, delta>>)]
                          /\ c_unacknowledged' = [c_unacknowledged EXCEPT
                                ![p] = Append(unack1, kv_request)]
                          /\ c_net' = net0 \cup {kv_request}
                          /\ c_sent' = c_sent \cup
                                {[m |-> kv_request, for |-> "add", req |-> in_reply_to]}
                          /\ c_msg_id' = [c_msg_id EXCEPT ![p] = @ + 1]
                          /\ UNCHANGED <<c_id, c_crashed, c_out, c_retried, c_ignored>>
                 ELSE /\ c_request_map' = [c_request_map EXCEPT ![p] = map1]
                      /\ c_unacknowledged' = [c_unacknowledged EXCEPT ![p] = unack1]
                      /\ c_out' = c_out \cup
                            {[Msg(c_id[p], client_id, c_msg_id[p], in_reply_to, "read_ok")
                                EXCEPT !.num = Parse(msg.value)]}
                      /\ c_net' = net0
                      /\ c_msg_id' = [c_msg_id EXCEPT ![p] = @ + 1]
                      /\ UNCHANGED <<c_id, c_crashed, c_sent, c_retried, c_ignored>>

\* A CasKvOk arm without its scan of unacknowledged: it removes nothing and
\* answers the client on every cas_ok.
CHandleCasKvOkKeeps(p, msg, net0) ==
    LET irt == msg.in_reply_to
    IN  /\ c_net' = net0
        /\ IF irt \in DOMAIN c_request_map[p]
           THEN LET entry == c_request_map[p][irt]
                IN  /\ c_out' = c_out \cup
                          {Msg(c_id[p], entry[1], c_msg_id[p], entry[2], "add_ok")}
                    /\ c_msg_id' = [c_msg_id EXCEPT ![p] = @ + 1]
           ELSE UNCHANGED <<c_out, c_msg_id>>
        /\ UNCHANGED <<c_id, c_crashed, c_sent, c_retried, c_ignored,
                       c_unacknowledged, c_request_map>>

CHandleCasKvOk(p, msg, net0) ==
    LET i == FirstMatch(c_unacknowledged[p], msg.in_reply_to)
        unack1 == RemoveAt(c_unacknowledged[p], i)
        irt == msg.in_reply_to
    IN  IF i = 0 THEN CDuplicate(p, net0)
        ELSE /\ c_unacknowledged' = [c_unacknowledged EXCEPT ![p] = unack1]
             /\ c_net' = net0
             /\ IF irt \in DOMAIN c_request_map[p]
                THEN LET entry == c_request_map[p][irt]
                     IN  /\ c_request_map' = [c_request_map EXCEPT
                               ![p] = MapRemove(@, irt)]
                         /\ c_out' = c_out \cup
                               {Msg(c_id[p], entry[1], c_msg_id[p], entry[2], "add_ok")}
                         /\ c_msg_id' = [c_msg_id EXCEPT ![p] = @ + 1]
                ELSE UNCHANGED <<c_request_map, c_out, c_msg_id>>
             /\ UNCHANGED <<c_id, c_crashed, c_sent, c_retried, c_ignored>>

\* Mutant of CasAfterError: the retry forgets to add the delta.
CasAfterErrorNoDelta(src, id, error, delta) ==
    CasKv(src, id, U64ToString(ParseErrorText(error)),
          U64ToString(ParseErrorText(error)), FALSE)

\* The CAS re-issued after a precondition-failed reply (Error 22 arm).
CasAfterError(src, id, error, delta) ==
    CasKv(src, id, U64ToString(ParseErrorText(error)),
          U64ToString(ParseErrorText(error) + delta), FALSE)

CHandleError22(p, msg, net0) ==
    LET i == FirstMatch(c_unacknowledged[p], msg.in_reply_to)
        unack1 == RemoveAt(c_unacknowledged[p], i)
        irt == msg.in_reply_to
    IN  IF i = 0 THEN CDuplicate(p, net0)
        ELSE IF \/ ParseErrorText(msg.text) = ParseErr
                \/ irt \notin DOMAIN c_request_map[p]
                \/ c_request_map[p][irt][3] = NoDelta
        THEN CPanic(p, net0)
        ELSE LET entry == c_request_map[p][irt]
                 kv_request ==
                    CasAfterError(c_id[p], c_msg_id[p], msg.text, entry[3])
             IN  /\ c_request_map' = [c_request_map EXCEPT
                       ![p] = MapInsert(MapRemove(@, irt), c_msg_id[p], entry)]
                 /\ c_unacknowledged' = [c_unacknowledged EXCEPT
                       ![p] = Append(unack1, kv_request)]
                 /\ c_net' = net0 \cup {kv_request}
                 /\ c_sent' = c_sent \cup
                       {[m |-> kv_request, for |-> "add", req |-> entry[2]]}
                 /\ c_retried' = c_retried \cup {entry[2]}
                 /\ c_msg_id' = [c_msg_id EXCEPT ![p] = @ + 1]
                 /\ UNCHANGED <<c_id, c_crashed, c_out, c_ignored>>

\* A match whose last arm ignores the message instead of panicking.
CHandleReplyLenient(p, msg, net0) ==
    CASE msg.type = "read_ok" -> CHandleReadOkKv(p, msg, net0)
      [] msg.type = "cas_ok" -> CHandleCasKvOk(p, msg, net0)
      [] msg.type = "error" /\ msg.code = 22 /\ msg.text # NoStr ->
            CHandleError22(p, msg, net0)
      [] OTHER -> CDuplicate(p, net0)

\* `match msg.body.inner` for the messages the store sends back.
CHandleReply(p, msg, net0) ==
    CASE msg.type = "read_ok" -> CHandleReadOkKv(p, msg, net0)
      [] msg.type = "cas_ok" -> CHandleCasKvOk(p, msg, net0)
      [] msg.type = "error" /\ msg.code = 22 /\ msg.text # NoStr ->
            CHandleError22(p, msg, net0)
      [] OTHER -> CPanic(p, net0)

(***************************************************************************)
(* The key-value service: one register per key, each request applied       *)
(* atomically.                                                             *)
(***************************************************************************)
TextCurrentValue ==
    <<"c", "u", "r", "r", "e", "n", "t", " ", "v", "a", "l", "u", "e", " ">>
TextIsNot == <<" ", "i", "s", " ", "n", "o", "t", " ">>
TextNoKey == <<"k", "e", "y", " ", "d", "o", "e", "s", " ", "n", "o", "t", " ",
               "e", "x", "i", "s", "t">>

KvReply(m, type) == Msg(SEQ_KV, m.src, NoId, m.id, type)

KvError(m, code, text) ==
    [KvReply(m, "error") EXCEPT !.code = code, !.text = text]

\* The value under the key after the store has applied request m.
KvApply(m, kv) ==
    IF m.type = "cas" /\ ((kv = Absent /\ m.create) \/ (kv # Absent /\ kv = m.from))
    THEN m.to
    ELSE kv

\* The reply of the store to request m when the key holds kv.
KvAnswer(m, kv) ==
    IF kv = Absent
    THEN IF m.type = "cas" /\ m.create
         THEN KvReply(m, "cas_ok")
         ELSE KvError(m, 20, TextNoKey)
    ELSE IF m.type = "read"
         THEN [KvReply(m, "read_ok") EXCEPT !.value = kv]
         ELSE IF kv = m.from
              THEN KvReply(m, "cas_ok")
              ELSE KvError(m, 22, TextCurrentValue \o kv \o TextIsNot \o m.from)

(***************************************************************************)
(* History of client requests, used to state the claims.                   *)
(***************************************************************************)
ReqIds == 1..Len(c_reqs)
AddIds == {r \in ReqIds : c_reqs[r].type = "add"}
ReadIds == {r \in ReqIds : c_reqs[r].type = "read"}

Acked(r, type) ==
    \E o \in c_out :
        o.type = type /\ o.in_reply_to = r /\ o.dst = c_reqs[r].client

AllAddsAcked == \A r \in AddIds : Acked(r, "add_ok")

RECURSIVE SumDeltasUpTo(_)
SumDeltasUpTo(r) ==
    IF r = 0 THEN 0
    ELSE SumDeltasUpTo(r - 1) + (IF c_reqs[r].type = "add" THEN c_reqs[r].delta ELSE 0)

SumDeltas == SumDeltasUpTo(Len(c_reqs))

\* The client a request comes from, and the request as the node reads it.
ClientOf(r) == ClientNames[(r % 2) + 1]

ClientMsg(p, type, delta) ==
    [Msg(ClientOf(Len(c_reqs) + 1), NodeNames[p], Len(c_reqs) + 1, NoId, type)
        EXCEPT !.delta = delta]

ReqRecord(p, type, delta) ==
    [proc |-> p, type |-> type, delta |-> delta,
     client |-> ClientOf(Len(c_reqs) + 1),
     quiet |-> AllAddsAcked, adds |-> Cardinality(AddIds)]

(***************************************************************************)
(* The steps of the counter system: main's select! loop of each process,   *)
(* the store and the network.                                              *)
(***************************************************************************)
Alive(p) == c_id[p] # None /\ ~c_crashed[p]

c_others == <<t_vars, g_vars, k_vars, u_vars, w_vars, l_vars>>

\* The harness starts process p: its first line of input is the init message.
CounterInit(p) ==
    /\ c_id[p] = None
    /\ ~c_crashed[p]
    /\ CHandleInit(p, InitMsg(p), c_net)
    /\ UNCHANGED <<c_kv, c_reqs, c_faults>>
    /\ UNCHANGED c_others

ClientAdd(p, delta) ==
    /\ Alive(p)
    /\ Len(c_reqs) < MaxReqs
    /\ CHandleAdd(p, ClientMsg(p, "add", delta), c_net)
    /\ c_reqs' = Append(c_reqs, ReqRecord(p, "add", delta))
    /\ UNCHANGED <<c_kv, c_faults>>
    /\ UNCHANGED c_others

ClientRead(p) ==
    /\ Alive(p)
    /\ Len(c_reqs) < MaxReqs
    /\ CHandleRead(p, ClientMsg(p, "read", NoDelta), c_net)
    /\ c_reqs' = Append(c_reqs, ReqRecord(p, "read", NoDelta))
    /\ UNCHANGED <<c_kv, c_faults>>
    /\ UNCHANGED c_others

\* The store applies request m and answers it.
KvStep(m) ==
    /\ m.dst = SEQ_KV
    /\ c_kv' = KvApply(m, c_kv)
    /\ c_net' = (c_net \ {m}) \cup {KvAnswer(m, c_kv)}
    /\ UNCHANGED <<c_id, c_msg_id, c_unacknowledged, c_request_map, c_crashed,
                   c_out, c_reqs, c_sent, c_retried, c_ignored, c_faults>>
    /\ UNCHANGED c_others

\* Process p reads a reply of the store from its input.
NodeRecv(p, m) ==
    /\ Alive(p)
    /\ m.dst = c_id[p]
    /\ CHandleReply(p, m, c_net \ {m})
    /\ UNCHANGED <<c_kv, c_reqs, c_faults>>
    /\ UNCHANGED c_others

\* main's interval.tick() arm: every unacknowledged request is sent again.
RetryTick(p) ==
    /\ ~c_crashed[p]
    /\ c_faults < MaxFaults
    /\ ~(SeqToSet(c_unacknowledged[p]) \subseteq c_net)
    /\ c_net' = c_net \cup SeqToSet(c_unacknowledged[p])
    /\ c_faults' = c_faults + 1
    /\ UNCHANGED <<c_id, c_msg_id, c_unacknowledged, c_request_map, c_crashed,
                   c_kv, c_out, c_reqs, c_sent, c_retried, c_ignored>>
    /\ UNCHANGED c_others

\* The network delivers a request to the store and keeps a copy in flight.
KvStepDup(m) ==
    /\ m.dst = SEQ_KV
    /\ c_faults < MaxFaults
    /\ c_kv' = KvApply(m, c_kv)
    /\ c_net' = c_net \cup {KvAnswer(m, c_kv)}
    /\ c_faults' = c_faults + 1
    /\ UNCHANGED <<c_id, c_msg_id, c_unacknowledged, c_request_map, c_crashed,
                   c_out, c_reqs, c_sent, c_retried, c_ignored>>
    /\ UNCHANGED c_others

\* The network delivers a reply to p and keeps a copy in flight.
NodeRecvDup(p, m) ==
    /\ Alive(p)
    /\ m.dst = c_id[p]
    /\ c_faults < MaxFaults
    /\ CHandleReply(p, m, c_net)
    /\ c_faults' = c_faults + 1
    /\ UNCHANGED <<c_kv, c_reqs>>
    /\ UNCHANGED c_others

\* The network loses a message.
Drop(m) ==
    /\ c_faults < MaxFaults
    /\ c_net' = c_net \ {m}
    /\ c_faults' = c_faults + 1
    /\ UNCHANGED <<c_id, c_msg_id, c_unacknowledged, c_request_map, c_crashed,
                   c_kv, c_out, c_reqs, c_sent, c_retried, c_ignored>>
    /\ UNCHANGED c_others

CounterInitState ==
    /\ c_id = [p \in CProcs |-> None]
    /\ c_msg_id = [p \in CProcs |-> 1]
    /\ c_unacknowledged = [p \in CProcs |-> <<>>]
    /\ c_request_map = [p \in CProcs |-> <<>>]
    /\ c_crashed = [p \in CProcs |-> FALSE]
    /\ c_kv = Absent
    /\ c_net = {}
    /\ c_out = {}
    /\ c_reqs = <<>>
    /\ c_sent = {}
    /\ c_retried = {}
    /\ c_ignored = {}
    /\ c_faults = 0

TopologyIdle ==
    /\ t_input = <<>>
    /\ t_nodes = <<>>
    /\ t_neighbors = <<>>

GossipIdle ==
    /\ g_id = <<>>
    /\ g_msg_id = <<>>
    /\ g_known = <<>>
    /\ g_neighbors = <<>>
    /\ g_nodes = <<>>
    /\ g_next_batch = <<>>
    /\ g_unacknowledged = <<>>
    /\ g_net = {}
    /\ g_out = {}
    /\ g_bcast = <<>>
    /\ g_again = 0
    /\ g_acked = {}
    /\ g_first = <<>>
    /\ g_faults = [dup |-> 0, loss |-> 0, idle |-> 0]

\* The log node's request and reply slots before anything has been read.
KNoReq ==
    [src |-> <<>>, dst |-> <<>>, id |-> NoId, type |-> "none", key |-> "",
     msg |-> 0, offsets |-> <<>>, keys |-> <<>>]

KNoReply ==
    [src |-> <<>>, dst |-> <<>>, id |-> NoId, in_reply_to |-> NoId, type |-> "none",
     offset |-> 0, msgs |-> <<>>, offsets |-> <<>>]

\* kafka.rs main: Node { id: None, msg_id: 1, logs: HashMap::new(), .. }
LogInitState ==
    /\ k_id = None
    /\ k_msg_id = 1
    /\ k_logs = <<>>
    /\ k_crashed = FALSE
    /\ k_req = KNoReq
    /\ k_reply = KNoReply
    /\ k_count = <<>>
    /\ k_named = <<>>
    /\ k_queries = 0

LogIdle == LogInitState

GuidIdle ==
    /\ u_id = <<>>
    /\ u_msg_id = <<>>
    /\ u_tasks = <<>>

RetryCallIdle ==
    /\ w_callbacks = {}
    /\ w_calls = <<>>
    /\ w_output = 0
    /\ w_emitted = <<>>

ClusterIdle ==
    /\ l_id = <<>>
    /\ l_msg_id = <<>>
    /\ l_logs = <<>>
    /\ l_acked = {}
    /\ l_polls = {}

\* The programs that a specification does not run.
OthersIdle == GuidIdle /\ RetryCallIdle /\ ClusterIdle

Init == CounterInitState /\ TopologyIdle /\ GossipIdle /\ LogIdle /\ OthersIdle

\* Every request reaches the store once and every reply reaches its node once.
NextOnce ==
    \/ \E p \in CProcs : CounterInit(p)
    \/ \E p \in CProcs, delta \in Deltas : ClientAdd(p, delta)
    \/ \E p \in CProcs : ClientRead(p)
    \/ \E m \in c_net : KvStep(m)
    \/ \E p \in CProcs, m \in c_net : NodeRecv(p, m)

\* The same with retries, duplication and loss.
Next ==
    \/ \E p \in FaultProcs : CounterInit(p)
    \/ \E p \in FaultProcs, delta \in Deltas : ClientAdd(p, delta)
    \/ \E p \in FaultProcs : ClientRead(p)
    \/ \E m \in c_net : KvStep(m)
    \/ \E p \in FaultProcs, m \in c_net : NodeRecv(p, m)
    \/ \E p \in FaultProcs : RetryTick(p)
    \/ \E m \in c_net : KvStepDup(m)
    \/ \E p \in FaultProcs, m \in c_net : NodeRecvDup(p, m)
    \/ \E m \in c_net : Drop(m)

\* The errors, other than precondition-failed with a text, that a store may
\* answer with: <<code, text>>.
TextUnavailable == <<"t", "e", "m", "p", "o", "r", "a", "r", "i", "l", "y", " ",
                     "u", "n", "a", "v", "a", "i", "l", "a", "b", "l", "e">>
OtherErrors == {<<22, NoStr>>, <<11, TextUnavailable>>, <<13, NoStr>>}

\* The store fails request m with one of those errors and leaves the key
\* as it is.
KvFail(m, e) ==
    /\ m.dst = SEQ_KV
    /\ c_net' = (c_net \ {m}) \cup {KvError(m, e[1], e[2])}
    /\ UNCHANGED <<c_id, c_msg_id, c_unacknowledged, c_request_map, c_crashed,
                   c_kv, c_out, c_reqs, c_sent, c_retried, c_ignored, c_faults>>
    /\ UNCHANGED c_others

\* Every message is delivered once, and the store may fail a request.
NextErrors ==
    \/ \E p \in CProcs : CounterInit(p)
    \/ \E p \in CProcs, delta \in Deltas : ClientAdd(p, delta)
    \/ \E p \in CProcs : ClientRead(p)
    \/ \E m \in c_net : KvStep(m)
    \/ \E p \in CProcs, m \in c_net : NodeRecv(p, m)
    \/ \E m \in c_net, e \in OtherErrors : KvFail(m, e)

\* The select! loop keeps reading its input, and the store and the network
\* keep serving what is in flight.
CounterFairness ==
    /\ WF_vars(\E p \in CProcs : CounterInit(p))
    /\ WF_vars(\E m \in c_net : KvStep(m))
    /\ WF_vars(\E p \in CProcs, m \in c_net : NodeRecv(p, m))

SpecOnceFair == Init /\ [][NextOnce]_vars /\ CounterFairness

SpecErrors == Init /\ [][NextErrors]_vars

SpecOnce == Init /\ [][NextOnce]_vars

Spec == Init /\ [][Next]_vars

(***************************************************************************)
(* Claims about the counter.                                               *)
(***************************************************************************)
\* C1: when every request is applied once and every reply delivered once,
\* then whenever all add requests read so far have been answered with add_ok
\* the value stored under the counter key is the sum of their deltas.
C1_SumWhenAllAcked ==
    (AddIds # {} /\ AllAddsAcked) =>
        (c_kv # Absent /\ Parse(c_kv) = SumDeltas)

\* C1 witness: two adds with a delta above 0, served by different processes,
\* one of which lost a CAS race and re-issued it, are both answered.
C1_Witness ==
    /\ AllAddsAcked
    /\ c_retried # {}
    /\ \E r1, r2 \in AddIds :
          /\ c_reqs[r1].proc # c_reqs[r2].proc
          /\ c_reqs[r1].delta > 0
          /\ c_reqs[r2].delta > 0

\* C2: with retries, duplication and loss, the stored counter never exceeds
\* the sum of the deltas of the add requests read so far.
C2_NeverExceedsSum == c_kv # Absent => Parse(c_kv) <= SumDeltas

\* C3: the step that handles add with delta 0 sends nothing to the store,
\* adds nothing to unacknowledged, and writes add_ok for the request.
C3_AddZeroNoStoreRpc ==
    [][(/\ Len(c_reqs') = Len(c_reqs) + 1
        /\ c_reqs'[Len(c_reqs')].type = "add"
        /\ c_reqs'[Len(c_reqs')].delta = 0)
       => (/\ c_net' = c_net
           /\ c_unacknowledged' = c_unacknowledged
           /\ \E o \in c_out' :
                 o.type = "add_ok" /\ o.in_reply_to = Len(c_reqs'))]_vars

\* C4: a read_ok for a read that was received when every add so far had been
\* answered, and with no add received since, carries the sum of the deltas.
C4_ReadReturnsSum ==
    \A o \in c_out :
        (/\ o.type = "read_ok"
         /\ c_reqs[o.in_reply_to].quiet
         /\ c_reqs[o.in_reply_to].adds = Cardinality(AddIds))
        => o.num = SumDeltas

\* C5: every ReadKv that serves a client read was preceded by a WriteKv of
\* the same node.
C5_WriteBeforeRead ==
    \A e \in c_sent :
        e.for = "read" =>
            \E w \in c_sent :
                w.m.type = "write" /\ w.m.src = e.m.src /\ w.m.id < e.m.id

\* C6: when the store applies a seed CAS (create_if_not_exists), the counter
\* key becomes 0 if it was absent and keeps its value otherwise.
C6_SeedIdempotent ==
    [][\A m \in c_net :
          (m.type = "cas" /\ m.create /\ KvStep(m)) =>
              c_kv' = (IF c_kv = Absent THEN <<"0">> ELSE c_kv)]_vars

\* C6 witness: the store has answered a seed CAS with precondition-failed
\* while the counter holds a value above 0.
C6_Witness ==
    /\ c_kv # Absent
    /\ Parse(c_kv) > 0
    /\ \E m \in c_net, e \in c_sent :
          /\ m.type = "error" /\ m.code = 22
          /\ e.for = "seed" /\ e.m.src = m.dst /\ e.m.id = m.in_reply_to

(***************************************************************************)
(* Topology construction (broadcast-e.rs and broadcast.rs, the Init and    *)
(* Topology arms).  Node ids are the strings "n0", "n1", ..., compared as  *)
(* Rust compares String: byte by byte.                                     *)
(***************************************************************************)
TopoMaxNodes == 22

NodeId(k) == <<"n">> \o U64ToString(k)

CharCode(c) == IF IsNumeric(c) THEN 48 + DigitVal(c) ELSE 110

RECURSIVE StrLess(_, _)
StrLess(a, b) ==
    IF b = <<>> THEN FALSE
    ELSE IF a = <<>> THEN TRUE
    ELSE IF Head(a) = Head(b) THEN StrLess(Tail(a), Tail(b))
    ELSE CharCode(Head(a)) < CharCode(Head(b))

RECURSIVE SortedInsert(_, _)
SortedInsert(x, s) ==
    IF s = <<>> THEN <<x>>
    ELSE IF StrLess(x, Head(s)) THEN <<x>> \o s
    ELSE <<Head(s)>> \o SortedInsert(x, Tail(s))

\* node_ids.sort()
RECURSIVE SortIds(_)
SortIds(s) == IF s = <<>> THEN <<>> ELSE SortedInsert(Head(s), SortIds(Tail(s)))

\* nodes.binary_search(id): the 0-based index of id in the sorted list nodes,
\* -1 when it is not there (the unwrap() then panics).
RECURSIVE BinarySearchIn(_, _, _, _)
BinarySearchIn(nodes, id, lo, hi) ==
    IF lo >= hi THEN -1
    ELSE LET mid == lo + ((hi - lo) \div 2)
         IN  IF nodes[mid + 1] = id THEN mid
             ELSE IF StrLess(nodes[mid + 1], id)
                  THEN BinarySearchIn(nodes, id, mid + 1, hi)
                  ELSE BinarySearchIn(nodes, id, lo, mid)

BinarySearch(nodes, id) == BinarySearchIn(nodes, id, 0, Len(nodes))

Fanout == 4

Min(a, b) == IF a < b THEN a ELSE b

\* child_idx without its + 1.
ChildIdxNoOffset(i) == Fanout * i

ChildIdx(i) == Fanout * i + 1

\* Mutant of ParentIdx: the - 1 is forgotten.
ParentIdxNoOffset(i) == i \div Fanout

ParentIdx(i) == (i - 1) \div Fanout

\* &nodes[child_idx..(child_idx + fanout).min(nodes.len())], or empty for a leaf
TopoChildren(nodes, i) ==
    IF ChildIdx(i) < Len(nodes)
    THEN SubSeq(nodes, ChildIdx(i) + 1, Min(ChildIdx(i) + Fanout, Len(nodes)))
    ELSE <<>>

\* &nodes[parent_idx..(parent_idx + 1)], or empty for the root
TopoParent(nodes, i) ==
    IF i # 0 THEN SubSeq(nodes, ParentIdx(i) + 1, ParentIdx(i) + 1) ELSE <<>>

\* [parent, children].concat()
TopoNeighbors(nodes, i) == TopoParent(nodes, i) \o TopoChildren(nodes, i)

\* The node_ids list of the init message for a cluster of n nodes, as the
\* harness may order it: n0 .. n(n-1) rotated by r.
NodeIdList(n, r) == [j \in 1..n |-> NodeId((j - 1 + r) % n)]

TProcs == 1..Len(t_input)

\* Node.neighbors is empty until the topology message is handled.
NotBuilt == [built |-> FALSE, parent |-> <<>>, children |-> <<>>, neighbors |-> <<>>]

t_others == <<c_vars, g_vars, k_vars, u_vars, w_vars, l_vars>>

\* Process k reads its init message: nodes = sorted node_ids.
TopoHandleInit(k) ==
    /\ t_nodes[k] = <<>>
    /\ IF k = 1 THEN TRUE ELSE t_neighbors[k - 1].built
    /\ t_nodes' = [t_nodes EXCEPT ![k] = SortIds(t_input)]
    /\ UNCHANGED <<t_input, t_neighbors>>
    /\ UNCHANGED t_others

\* Process k reads its topology message.
TopoHandleTopology(k) ==
    /\ t_nodes[k] # <<>>
    /\ ~t_neighbors[k].built
    /\ LET i == BinarySearch(t_nodes[k], NodeId(k - 1))
       IN  /\ i >= 0
           /\ t_neighbors' = [t_neighbors EXCEPT ![k] =
                 [built |-> TRUE,
                  parent |-> TopoParent(t_nodes[k], i),
                  children |-> TopoChildren(t_nodes[k], i),
                  neighbors |-> TopoNeighbors(t_nodes[k], i)]]
    /\ UNCHANGED <<t_input, t_nodes>>
    /\ UNCHANGED t_others

CounterIdle == CounterInitState

TopoInitState ==
    \E n \in 1..TopoMaxNodes, r \in 0..(TopoMaxNodes - 1) :
        /\ r < n
        /\ t_input = NodeIdList(n, r)
        /\ t_nodes = [k \in 1..n |-> <<>>]
        /\ t_neighbors = [k \in 1..n |-> NotBuilt]

TopoInit == CounterIdle /\ TopoInitState /\ GossipIdle /\ LogIdle /\ OthersIdle

TopoNext ==
    \/ \E k \in TProcs : TopoHandleInit(k)
    \/ \E k \in TProcs : TopoHandleTopology(k)

SpecTopology == TopoInit /\ [][TopoNext]_vars

\* The process whose id is the string id.
TProcOf(id) == CHOOSE k \in TProcs : NodeId(k - 1) = id

TopoBuilt == \A k \in TProcs : t_neighbors[k].built

RECURSIVE TopoReachesRoot(_, _)
TopoReachesRoot(k, fuel) ==
    IF t_neighbors[k].parent = <<>> THEN TRUE
    ELSE IF fuel = 0 THEN FALSE
    ELSE TopoReachesRoot(TProcOf(t_neighbors[k].parent[1]), fuel - 1)

\* C7: once every node has built its neighbours, they form a tree: exactly
\* one node has no parent, every other node has one parent, which is the one
\* node that lists it as a child, following parents leads to the root, and
\* no node has more than Fanout children or Fanout + 1 neighbours.
C7_NeighborsFormTree ==
    TopoBuilt =>
        /\ Cardinality({k \in TProcs : t_neighbors[k].parent = <<>>}) = 1
        /\ \A k \in TProcs :
              /\ Len(t_neighbors[k].children) <= Fanout
              /\ Len(t_neighbors[k].neighbors) <= Fanout + 1
              /\ Len(t_neighbors[k].parent) <= 1
              /\ SeqToSet(t_neighbors[k].neighbors) \subseteq
                    {NodeId(j - 1) : j \in TProcs}
              /\ TopoReachesRoot(k, Len(t_input))
              /\ t_neighbors[k].parent # <<>> =>
                    {j \in TProcs :
                        NodeId(k - 1) \in SeqToSet(t_neighbors[j].children)}
                    = {TProcOf(t_neighbors[k].parent[1])}
              /\ t_neighbors[k].parent = <<>> =>
                    \A j \in TProcs :
                        NodeId(k - 1) \notin SeqToSet(t_neighbors[j].children)

\* C7 witness: a cluster of 13 nodes, given in an order that is not sorted,
\* has built its neighbours, and some node is a grandchild of the root.
C7_Witness ==
    /\ TopoBuilt
    /\ Len(t_input) = 13
    /\ t_input # SortIds(t_input)
    /\ \E k \in TProcs :
          /\ t_neighbors[k].parent # <<>>
          /\ t_neighbors[TProcOf(t_neighbors[k].parent[1])].parent # <<>>

(***************************************************************************)
(* The batching gossip node, broadcast-e.rs.                               *)
(***************************************************************************)
GossipNodes == 3
LossyNodes == 2
MaxValues == 1
MaxDup == 1
MaxLoss == 1
MaxIdleFlush == 1

GProcs == 1..GossipNodes
LossyProcs == 1..LossyNodes
Values == 1..MaxValues

\* The process that runs the node called id.
GProcOf(id) == CHOOSE p \in GProcs : NodeId(p - 1) = id

IsNode(id) == \E p \in GProcs : NodeId(p - 1) = id

GClient == <<"c", "1">>

GMsg(src, dst, id, irt, type, messages) ==
    [src |-> src, dst |-> dst, id |-> id, in_reply_to |-> irt, type |-> type,
     messages |-> messages, node_id |-> <<>>, node_ids |-> <<>>]

\* next_batch.entry(n).and_modify(|e| e.push(message)).or_insert(vec![message])
BatchPush(batch, n, message) ==
    IF n \in DOMAIN batch
    THEN [batch EXCEPT ![n] = Append(@, message)]
    ELSE (n :> <<message>>) @@ batch

\* `for n in neighbors.iter()`, skipping the node called skip
\* The loop over the neighbours without its `if *n == msg.src { continue; }`.
RECURSIVE BatchPushAllNoSkip(_, _, _, _)
BatchPushAllNoSkip(batch, neighbors, skip, message) ==
    IF neighbors = <<>> THEN batch
    ELSE BatchPushAllNoSkip(BatchPush(batch, Head(neighbors), message),
                            Tail(neighbors), skip, message)

RECURSIVE BatchPushAll(_, _, _, _)
BatchPushAll(batch, neighbors, skip, message) ==
    IF neighbors = <<>> THEN batch
    ELSE IF Head(neighbors) = skip
         THEN BatchPushAll(batch, Tail(neighbors), skip, message)
         ELSE BatchPushAll(BatchPush(batch, Head(neighbors), message),
                           Tail(neighbors), skip, message)

\* The loop without its already_seen test: every value is batched again.
RECURSIVE AbsorbBatchNoDedup(_, _, _, _, _)
AbsorbBatchNoDedup(known, batch, neighbors, src, messages) ==
    IF messages = <<>> THEN [known |-> known, batch |-> batch]
    ELSE AbsorbBatchNoDedup(known \cup {Head(messages)},
                            BatchPushAll(batch, neighbors, src, Head(messages)),
                            neighbors, src, Tail(messages))

\* `for message in messages` of the BatchBroadcast arm: the known set and the
\* batches after the whole list has been gone through.
RECURSIVE AbsorbBatch(_, _, _, _, _)
AbsorbBatch(known, batch, neighbors, src, messages) ==
    IF messages = <<>> THEN [known |-> known, batch |-> batch]
    ELSE IF Head(messages) \in known
         THEN AbsorbBatch(known, batch, neighbors, src, Tail(messages))
         ELSE AbsorbBatch(known \cup {Head(messages)},
                          BatchPushAll(batch, neighbors, src, Head(messages)),
                          neighbors, src, Tail(messages))

GHandleInit(p, msg, net0) ==
    /\ g_id[p] = <<>>
    /\ g_id' = [g_id EXCEPT ![p] = msg.node_id]
    /\ g_nodes' = [g_nodes EXCEPT ![p] = SortIds(msg.node_ids)]
    /\ g_out' = g_out \cup
          {GMsg(msg.dst, msg.src, g_msg_id[p], msg.id, "init_ok", <<>>)}
    /\ g_msg_id' = [g_msg_id EXCEPT ![p] = @ + 1]
    /\ g_net' = net0
    /\ UNCHANGED <<g_known, g_neighbors, g_next_batch, g_unacknowledged>>

GHandleTopology(p, msg, net0) ==
    /\ g_id[p] # <<>>
    /\ BinarySearch(g_nodes[p], g_id[p]) >= 0
    /\ g_neighbors' = [g_neighbors EXCEPT
          ![p] = TopoNeighbors(g_nodes[p], BinarySearch(g_nodes[p], g_id[p]))]
    /\ g_out' = g_out \cup
          {GMsg(msg.dst, msg.src, g_msg_id[p], msg.id, "topology_ok", <<>>)}
    /\ g_msg_id' = [g_msg_id EXCEPT ![p] = @ + 1]
    /\ g_net' = net0
    /\ UNCHANGED <<g_id, g_nodes, g_known, g_next_batch, g_unacknowledged>>

\* A Broadcast arm without its `for n in self.neighbors.iter()` loop.
GHandleBroadcastNoBatch(p, msg, net0) ==
    /\ g_known' = [g_known EXCEPT ![p] = @ \cup {msg.messages[1]}]
    /\ g_out' = g_out \cup
          {GMsg(msg.dst, msg.src, g_msg_id[p], msg.id, "broadcast_ok", <<>>)}
    /\ g_msg_id' = [g_msg_id EXCEPT ![p] = @ + 1]
    /\ g_net' = net0
    /\ UNCHANGED <<g_id, g_nodes, g_neighbors, g_unacknowledged, g_next_batch>>

GHandleBroadcast(p, msg, net0) ==
    /\ g_known' = [g_known EXCEPT ![p] = @ \cup {msg.messages[1]}]
    /\ g_next_batch' = [g_next_batch EXCEPT
          ![p] = BatchPushAll(@, g_neighbors[p], <<>>, msg.messages[1])]
    /\ g_out' = g_out \cup
          {GMsg(msg.dst, msg.src, g_msg_id[p], msg.id, "broadcast_ok", <<>>)}
    /\ g_msg_id' = [g_msg_id EXCEPT ![p] = @ + 1]
    /\ g_net' = net0
    /\ UNCHANGED <<g_id, g_nodes, g_neighbors, g_unacknowledged>>

\* A BatchBroadcast arm without its `self.msg_id += 1`.
GHandleBatchBroadcastSameId(p, msg, net0) ==
    LET r == AbsorbBatch(g_known[p], g_next_batch[p], g_neighbors[p],
                         msg.src, msg.messages)
    IN  /\ g_known' = [g_known EXCEPT ![p] = r.known]
        /\ g_next_batch' = [g_next_batch EXCEPT ![p] = r.batch]
        /\ g_net' = net0 \cup
              {GMsg(msg.dst, msg.src, g_msg_id[p], msg.id, "broadcast_ok", <<>>)}
        /\ UNCHANGED <<g_id, g_nodes, g_neighbors, g_unacknowledged, g_out, g_msg_id>>

GHandleBatchBroadcast(p, msg, net0) ==
    LET r == AbsorbBatch(g_known[p], g_next_batch[p], g_neighbors[p],
                         msg.src, msg.messages)
    IN  /\ g_known' = [g_known EXCEPT ![p] = r.known]
        /\ g_next_batch' = [g_next_batch EXCEPT ![p] = r.batch]
        /\ g_net' = net0 \cup
              {GMsg(msg.dst, msg.src, g_msg_id[p], msg.id, "broadcast_ok", <<>>)}
        /\ g_msg_id' = [g_msg_id EXCEPT ![p] = @ + 1]
        /\ UNCHANGED <<g_id, g_nodes, g_neighbors, g_unacknowledged, g_out>>

\* The BroadcastOk arm without its `self.unacknowledged.remove(i)`.
GHandleBroadcastOkKeeps(p, msg, net0) ==
    /\ g_net' = net0
    /\ UNCHANGED <<g_id, g_nodes, g_known, g_neighbors, g_next_batch,
                   g_msg_id, g_out, g_unacknowledged>>

GHandleBroadcastOk(p, msg, net0) ==
    LET i == FirstMatch(g_unacknowledged[p], msg.in_reply_to)
    IN  /\ g_unacknowledged' = [g_unacknowledged EXCEPT
              ![p] = IF i = 0 THEN @ ELSE RemoveAt(@, i)]
        /\ g_net' = net0
        /\ UNCHANGED <<g_id, g_nodes, g_known, g_neighbors, g_next_batch,
                       g_msg_id, g_out>>

\* `match msg.body.inner` for the messages that peers send.
GHandlePeer(p, msg, net0) ==
    IF msg.type = "batch_broadcast"
    THEN GHandleBatchBroadcast(p, msg, net0)
    ELSE GHandleBroadcastOk(p, msg, net0)

\* The batchBroadcast messages of one flush: one per entry of next_batch, in
\* the order `order` in which the map is iterated, ids taken in that order.
FlushMsgs(p, order) ==
    [j \in 1..Len(order) |->
        GMsg(g_id[p], order[j], g_msg_id[p] + j - 1, NoId, "batch_broadcast",
             g_next_batch[p][order[j]])]

\* The orders in which a HashMap with these keys may be iterated.
IterOrders(keys) ==
    {o \in [1..Cardinality(keys) -> keys] :
        \A a, b \in 1..Cardinality(keys) : a # b => o[a] # o[b]}

(***************************************************************************)
(* The steps of the gossip system: main's select! loop of each process and *)
(* the network between the nodes.                                          *)
(***************************************************************************)
g_others == <<c_vars, t_vars, k_vars, u_vars, w_vars, l_vars>>

GInitMsg(p) ==
    [GMsg(GClient, NodeId(p - 1), 1, NoId, "init", <<>>) EXCEPT
        !.node_id = NodeId(p - 1), !.node_ids = NodeIdList(Cardinality(DOMAIN g_id), 1)]

\* Process p has handled its topology message.
Built(p) == \E o \in g_out : o.type = "topology_ok" /\ o.src = NodeId(p - 1)

AllBuilt == \A p \in DOMAIN g_id : Built(p)

GInit(p) ==
    /\ g_id[p] = <<>>
    /\ GHandleInit(p, GInitMsg(p), g_net)
    /\ UNCHANGED <<g_bcast, g_again, g_acked, g_first, g_faults>>
    /\ UNCHANGED g_others

GTopology(p) ==
    /\ g_id[p] # <<>>
    /\ ~Built(p)
    /\ GHandleTopology(p, GMsg(GClient, NodeId(p - 1), 2, NoId, "topology", <<>>), g_net)
    /\ UNCHANGED <<g_bcast, g_again, g_acked, g_first, g_faults>>
    /\ UNCHANGED g_others

\* g_first once process p has read the values from the sender src: a value
\* it did not know is recorded as first received from src.
FirstSeen(p, src, values) ==
    [g_first EXCEPT ![p] = [v \in values \ DOMAIN @ |-> src] @@ @]

\* g_first once the receiver of m has read m.
FirstSeenIn(m) ==
    IF m.type = "batch_broadcast"
    THEN FirstSeen(GProcOf(m.dst), m.src, SeqToSet(m.messages))
    ELSE g_first

\* A client broadcasts the next value at process p.
GClientBroadcast(p) ==
    /\ g_id[p] # <<>>
    /\ Len(g_bcast) < MaxValues
    /\ GHandleBroadcast(p, GMsg(GClient, NodeId(p - 1), Len(g_bcast) + 3, NoId,
                                "broadcast", <<Len(g_bcast) + 1>>), g_net)
    /\ g_bcast' = Append(g_bcast,
          [value |-> Len(g_bcast) + 1, proc |-> p, built |-> AllBuilt])
    /\ g_first' = FirstSeen(p, GClient, {Len(g_bcast) + 1})
    /\ UNCHANGED <<g_again, g_acked, g_faults>>
    /\ UNCHANGED g_others

\* How many values of a batch the receiver already knows.
KnownIn(m) ==
    IF m.type = "batch_broadcast"
    THEN Cardinality({j \in 1..Len(m.messages) :
                         m.messages[j] \in g_known[GProcOf(m.dst)]})
    ELSE 0

\* The message that m acknowledges at its receiver, as <<node id, message id>>.
AckedBy(m) ==
    IF /\ m.type = "broadcast_ok"
       /\ FirstMatch(g_unacknowledged[GProcOf(m.dst)], m.in_reply_to) # 0
    THEN {<<m.dst, m.in_reply_to>>}
    ELSE {}

\* The process named m.dst reads m from its input.
GDeliver(m) ==
    /\ GHandlePeer(GProcOf(m.dst), m, g_net \ {m})
    /\ g_again' = g_again + KnownIn(m)
    /\ g_acked' = g_acked \cup AckedBy(m)
    /\ g_first' = FirstSeenIn(m)
    /\ UNCHANGED <<g_bcast, g_faults>>
    /\ UNCHANGED g_others

\* The same, the network keeping a copy in flight.
GDeliverDup(m) ==
    /\ g_faults.dup < MaxDup
    /\ GHandlePeer(GProcOf(m.dst), m, g_net)
    /\ g_again' = g_again + KnownIn(m)
    /\ g_acked' = g_acked \cup AckedBy(m)
    /\ g_first' = FirstSeenIn(m)
    /\ g_faults' = [g_faults EXCEPT !.dup = @ + 1]
    /\ UNCHANGED g_bcast
    /\ UNCHANGED g_others

\* The network loses m.
GDrop(m) ==
    /\ g_faults.loss < MaxLoss
    /\ g_net' = g_net \ {m}
    /\ g_faults' = [g_faults EXCEPT !.loss = @ + 1]
    /\ UNCHANGED <<g_id, g_msg_id, g_known, g_neighbors, g_nodes, g_next_batch,
                   g_unacknowledged, g_out, g_bcast, g_again, g_acked,
                   g_first>>
    /\ UNCHANGED g_others

\* A flush that clones each batch instead of taking it.
GFlushTickKeeps(p, order) ==
    /\ DOMAIN g_next_batch[p] # {}
    /\ LET idle == \A n \in DOMAIN g_next_batch[p] : g_next_batch[p][n] = <<>>
       IN  /\ idle => g_faults.idle < MaxIdleFlush
           /\ g_faults' = [g_faults EXCEPT !.idle = IF idle THEN @ + 1 ELSE @]
    /\ g_unacknowledged' = [g_unacknowledged EXCEPT ![p] = @ \o FlushMsgs(p, order)]
    /\ g_net' = g_net \cup SeqToSet(FlushMsgs(p, order))
    /\ g_msg_id' = [g_msg_id EXCEPT ![p] = @ + Len(order)]
    /\ UNCHANGED <<g_id, g_known, g_neighbors, g_nodes, g_out, g_bcast, g_again,
                   g_acked, g_first, g_next_batch>>
    /\ UNCHANGED g_others

\* main's batch_interval.tick() arm.  A tick that finds every batch empty
\* still sends (empty) messages; MaxIdleFlush of those are followed.
GFlushTick(p, order) ==
    /\ DOMAIN g_next_batch[p] # {}
    /\ LET idle == \A n \in DOMAIN g_next_batch[p] : g_next_batch[p][n] = <<>>
       IN  /\ idle => g_faults.idle < MaxIdleFlush
           /\ g_faults' = [g_faults EXCEPT !.idle = IF idle THEN @ + 1 ELSE @]
    /\ g_unacknowledged' = [g_unacknowledged EXCEPT ![p] = @ \o FlushMsgs(p, order)]
    /\ g_net' = g_net \cup SeqToSet(FlushMsgs(p, order))
    /\ g_msg_id' = [g_msg_id EXCEPT ![p] = @ + Len(order)]
    /\ g_next_batch' = [g_next_batch EXCEPT
          ![p] = [n \in DOMAIN g_next_batch[p] |-> <<>>]]
    /\ UNCHANGED <<g_id, g_known, g_neighbors, g_nodes, g_out, g_bcast, g_again,
                   g_acked, g_first>>
    /\ UNCHANGED g_others

\* An unacknowledged message is lost when neither it nor an acknowledgment
\* of it is in flight.
Lost(m) ==
    /\ m \notin g_net
    /\ ~\E a \in g_net :
          a.type = "broadcast_ok" /\ a.in_reply_to = m.id
          /\ a.dst = m.src /\ a.src = m.dst

\* A retry tick that sends only the oldest unacknowledged message.
GRetryTickFirstOnly(p) ==
    /\ \E i \in 1..Len(g_unacknowledged[p]) : Lost(g_unacknowledged[p][i])
    /\ g_net' = g_net \cup {Head(g_unacknowledged[p])}
    /\ UNCHANGED <<g_id, g_msg_id, g_known, g_neighbors, g_nodes, g_next_batch,
                   g_unacknowledged, g_out, g_bcast, g_again, g_acked,
                   g_first, g_faults>>
    /\ UNCHANGED g_others

\* main's retry_interval.tick() arm.  The retry interval is long against the
\* network's delay: the ticks followed are those that find a message lost
\* (a tick that re-sends what is still under way acts as GDeliverDup does).
GRetryTick(p) ==
    /\ \E i \in 1..Len(g_unacknowledged[p]) : Lost(g_unacknowledged[p][i])
    /\ g_net' = g_net \cup SeqToSet(g_unacknowledged[p])
    /\ UNCHANGED <<g_id, g_msg_id, g_known, g_neighbors, g_nodes, g_next_batch,
                   g_unacknowledged, g_out, g_bcast, g_again, g_acked,
                   g_first, g_faults>>
    /\ UNCHANGED g_others

\* A cluster of n processes, none of which has read its init message.
GossipInitState(n) ==
    /\ g_id = [p \in 1..n |-> <<>>]
    /\ g_msg_id = [p \in 1..n |-> 1]
    /\ g_known = [p \in 1..n |-> {}]
    /\ g_neighbors = [p \in 1..n |-> <<>>]
    /\ g_nodes = [p \in 1..n |-> <<>>]
    /\ g_next_batch = [p \in 1..n |-> <<>>]
    /\ g_unacknowledged = [p \in 1..n |-> <<>>]
    /\ g_net = {}
    /\ g_out = {}
    /\ g_bcast = <<>>
    /\ g_again = 0
    /\ g_acked = {}
    /\ g_first = [p \in 1..n |-> <<>>]
    /\ g_faults = [dup |-> 0, loss |-> 0, idle |-> 0]

GossipInit == CounterIdle /\ TopologyIdle /\ GossipInitState(GossipNodes) /\ LogIdle /\ OthersIdle

GossipLossyInit == CounterIdle /\ TopologyIdle /\ GossipInitState(LossyNodes) /\ LogIdle /\ OthersIdle

\* No message is lost or duplicated.
GossipNext ==
    \/ \E p \in DOMAIN g_id : GInit(p)
    \/ \E p \in DOMAIN g_id : GTopology(p)
    \/ \E p \in DOMAIN g_id : GClientBroadcast(p)
    \/ \E m \in g_net : GDeliver(m)
    \/ \E p \in DOMAIN g_id : \E order \in IterOrders(DOMAIN g_next_batch[p]) :
          GFlushTick(p, order)

\* Messages may be duplicated, MaxDup times, but none is lost.
GossipDupNext ==
    \/ \E p \in DOMAIN g_id : GInit(p)
    \/ \E p \in DOMAIN g_id : GTopology(p)
    \/ \E p \in DOMAIN g_id : GClientBroadcast(p)
    \/ \E m \in g_net : GDeliver(m)
    \/ \E p \in DOMAIN g_id : \E order \in IterOrders(DOMAIN g_next_batch[p]) :
          GFlushTick(p, order)
    \/ \E m \in g_net : GDeliverDup(m)

\* Messages may be lost and duplicated, MaxLoss and MaxDup times.
GossipLossyNext ==
    \/ \E p \in DOMAIN g_id : GInit(p)
    \/ \E p \in DOMAIN g_id : GTopology(p)
    \/ \E p \in DOMAIN g_id : GClientBroadcast(p)
    \/ \E m \in g_net : GDeliver(m)
    \/ \E p \in DOMAIN g_id : \E order \in IterOrders(DOMAIN g_next_batch[p]) :
          GFlushTick(p, order)
    \/ \E p \in DOMAIN g_id : GRetryTick(p)
    \/ \E m \in g_net : GDeliverDup(m)
    \/ \E m \in g_net : GDrop(m)

\* The select! loop keeps taking whichever arm is ready, and the network
\* keeps delivering what is in flight.
GossipFairness ==
    /\ WF_vars(\E p \in DOMAIN g_id : GInit(p))
    /\ WF_vars(\E p \in DOMAIN g_id : GTopology(p))
    /\ WF_vars(\E m \in g_net : GDeliver(m))
    /\ WF_vars(\E p \in DOMAIN g_id : \E order \in IterOrders(DOMAIN g_next_batch[p]) :
                  GFlushTick(p, order))
    /\ WF_vars(\E p \in DOMAIN g_id : GRetryTick(p))

SpecGossip == GossipInit /\ [][GossipNext]_vars /\ GossipFairness

SpecGossipDup == GossipInit /\ [][GossipDupNext]_vars /\ GossipFairness

SpecGossipLossy == GossipLossyInit /\ [][GossipLossyNext]_vars /\ GossipFairness

(***************************************************************************)
(* Claims about the gossip engine.                                         *)
(***************************************************************************)
\* Value v has been submitted by a client broadcast.
Submitted(v) == \E i \in DOMAIN g_bcast : g_bcast[i].value = v

\* Value v has been submitted when every node had handled its topology message.
SubmittedBuilt(v) == \E i \in DOMAIN g_bcast : g_bcast[i].value = v /\ g_bcast[i].built

\* C8: with no message loss and fair flush ticks, a value submitted by a
\* client broadcast at any one node is eventually in the known set of every
\* node of the cluster.
C8_EventuallyKnownEverywhere ==
    \A p \in GProcs : \A v \in Values : Submitted(v) ~> (v \in g_known[p])

\* The same for the values submitted once every node has built its neighbours.
C8_AfterTopology ==
    \A p \in GProcs : \A v \in Values : SubmittedBuilt(v) ~> (v \in g_known[p])

\* C9: when messages may be dropped and duplicated but retransmissions are
\* not dropped forever, and flush and retry ticks occur fairly, every
\* client-broadcast value is eventually in the known set of every node.
C9_EventuallyKnownUnderLoss ==
    \A v \in Values : \A p \in LossyProcs : Submitted(v) ~> (v \in g_known[p])

\* The same for the values submitted once every node has built its neighbours.
C9_AfterTopology ==
    \A v \in Values : \A p \in LossyProcs : SubmittedBuilt(v) ~> (v \in g_known[p])

\* How often value v stands in the batches process p holds for its neighbours.
BatchCount(batches, v) ==
    LET RECURSIVE Sum(_)
        Sum(S) == IF S = {} THEN 0
                  ELSE LET n == CHOOSE x \in S : TRUE
                       IN  Cardinality({j \in 1..Len(batches[n]) : batches[n][j] = v})
                           + Sum(S \ {n})
    IN  Sum(DOMAIN batches)

\* C10: in every step each node's known set is a superset of its previous
\* value, and a step in which a node receives a batchBroadcast with a value it
\* already knows leaves that value's place unchanged: the known set gains
\* nothing by it and no neighbour's outgoing batch gains the value.
C10_KnownMonotoneAndDedup ==
    [][ /\ \A p \in DOMAIN g_known : g_known[p] \subseteq g_known'[p]
        /\ \A m \in g_net :
              (m.type = "batch_broadcast" /\ (GDeliver(m) \/ GDeliverDup(m))) =>
                 \A j \in 1..Len(m.messages) :
                    m.messages[j] \in g_known[GProcOf(m.dst)] =>
                       /\ (\A k \in 1..Len(m.messages) :
                              m.messages[k] \in g_known[GProcOf(m.dst)])
                          => g_known'[GProcOf(m.dst)] = g_known[GProcOf(m.dst)]
                       /\ BatchCount(g_next_batch'[GProcOf(m.dst)], m.messages[j])
                          = BatchCount(g_next_batch[GProcOf(m.dst)], m.messages[j])
      ]_vars

\* A node has received a batchBroadcast with a value it already knew.
C10_Witness == g_again > 0

(***************************************************************************)
(* The log node (kafka.rs).  Its unacknowledged vector is never pushed to, *)
(* so its retry tick sends nothing and is left out.                        *)
(***************************************************************************)
NumKeys == 2
MaxVal == 2
MaxMixed == 2
MaxSends == 22
MaxPollOffset == 2
MaxCommit == 1
MaxQueries == 2

KeyNames == <<"k1", "k2", "k3", "k4">>
Keys == {KeyNames[i] : i \in 1..NumKeys}
KVals == 1..MaxVal
KNodeId == NodeId(0)
KClient == <<"c", "1">>

\* The maps a poll or a commit may carry, and the key lists of a list request.
OffsetMaps(max) == UNION {[K -> 0..max] : K \in SUBSET Keys}
KeyLists == UNION {[1..n -> Keys] : n \in 0..2}

PageSize == 20

\* #[derive(Default)] struct Log
LogDefault == [next_offset |-> 0, committed |-> 0, messages |-> <<>>]

\* self.logs.entry(key).or_default()
OrDefault(logs, key) ==
    IF key \in DOMAIN logs THEN logs ELSE (key :> LogDefault) @@ logs

\* skip_while(|(offset, _)| *offset <= o): the entry at o is skipped too.
RECURSIVE SkipWhileNotAbove(_, _)
SkipWhileNotAbove(messages, o) ==
    IF messages = <<>> THEN <<>>
    ELSE IF Head(messages)[1] <= o THEN SkipWhileNotAbove(Tail(messages), o)
         ELSE messages

\* skip_while(|(offset, _)| *offset < o)
RECURSIVE SkipWhileBelow(_, _)
SkipWhileBelow(messages, o) ==
    IF messages = <<>> THEN <<>>
    ELSE IF Head(messages)[1] < o THEN SkipWhileBelow(Tail(messages), o)
         ELSE messages

\* take(n)
Take(s, n) == SubSeq(s, 1, Min(n, Len(s)))

\* The list a poll returns for one key.
PollKey(log, o) == Take(SkipWhileBelow(log.messages, o), PageSize)

\* A poll that lists every requested key, known or not.
PollMsgsAllKeys(logs, offsets) ==
    [k \in DOMAIN offsets |-> PollKey(OrDefault(logs, k)[k], offsets[k])]

\* `for (k, o) in offsets` of the Poll arm.
PollMsgs(logs, offsets) ==
    [k \in DOMAIN offsets \cap DOMAIN logs |-> PollKey(logs[k], offsets[k])]

\* `for (k, o) in offsets` of the CommitOffsets arm: and_modify touches only
\* the keys that have a log.
CommitAll(logs, offsets) ==
    [k \in DOMAIN logs |->
        IF k \in DOMAIN offsets
        THEN [logs[k] EXCEPT !.committed = offsets[k]]
        ELSE logs[k]]

\* A list that reports every requested key, known or not.
ListOffsetsAllKeys(logs, keys) ==
    [k \in SeqToSet(keys) |-> OrDefault(logs, k)[k].committed]

\* `for k in keys` of the ListCommittedOffsets arm.
ListOffsets(logs, keys) ==
    [k \in SeqToSet(keys) \cap DOMAIN logs |-> logs[k].committed]

KReq(type) ==
    [KNoReq EXCEPT !.src = KClient, !.dst = KNodeId, !.id = k_msg_id + k_queries,
                   !.type = type]

KReply(msg, src, type) ==
    [KNoReply EXCEPT !.src = src, !.dst = msg.src, !.id = k_msg_id,
                     !.in_reply_to = msg.id, !.type = type]

\* The arms of Node::handle_msg.
KHandleInit(msg) ==
    IF k_id # None
    THEN /\ k_crashed' = TRUE
         /\ k_reply' = KNoReply
         /\ UNCHANGED <<k_id, k_msg_id, k_logs>>
    ELSE /\ k_id' = msg.dst
         /\ k_reply' = KReply(msg, msg.dst, "init_ok")
         /\ k_msg_id' = k_msg_id + 1
         /\ UNCHANGED <<k_logs, k_crashed>>

\* A Send arm that does not advance next_offset.
AppendedStuck(l, m) ==
    [l EXCEPT !.messages = Append(@, <<l.next_offset, m>>)]

\* l.messages.push((l.next_offset, m)); l.next_offset += 1
Appended(l, m) ==
    [l EXCEPT !.messages = Append(@, <<l.next_offset, m>>),
              !.next_offset = @ + 1]

KHandleSend(msg) ==
    LET logs == OrDefault(k_logs, msg.key)
    IN  /\ k_logs' = [logs EXCEPT ![msg.key] = Appended(@, msg.msg)]
        /\ k_reply' = [KReply(msg, k_id, "send_ok") EXCEPT
              !.offset = logs[msg.key].next_offset]
        /\ k_msg_id' = k_msg_id + 1
        /\ UNCHANGED <<k_id, k_crashed>>

KHandlePoll(msg) ==
    /\ k_reply' = [KReply(msg, k_id, "poll_ok") EXCEPT
          !.msgs = PollMsgs(k_logs, msg.offsets)]
    /\ k_msg_id' = k_msg_id + 1
    /\ UNCHANGED <<k_id, k_logs, k_crashed>>

KHandleCommitOffsets(msg) ==
    /\ k_logs' = CommitAll(k_logs, msg.offsets)
    /\ k_reply' = KReply(msg, k_id, "commit_offsets_ok")
    /\ k_msg_id' = k_msg_id + 1
    /\ UNCHANGED <<k_id, k_crashed>>

KHandleListCommittedOffsets(msg) ==
    /\ k_reply' = [KReply(msg, k_id, "list_committed_offsets_ok") EXCEPT
          !.offsets = ListOffsets(k_logs, msg.keys)]
    /\ k_msg_id' = k_msg_id + 1
    /\ UNCHANGED <<k_id, k_logs, k_crashed>>

k_others == <<c_vars, t_vars, g_vars, u_vars, w_vars, l_vars>>

KAlive == k_id # None /\ ~k_crashed

\* The harness sends init; a second init may follow one that was handled.
KInit ==
    /\ ~k_crashed
    /\ k_req' = KReq("init")
    /\ KHandleInit(KReq("init"))
    /\ UNCHANGED <<k_count, k_named, k_queries>>
    /\ UNCHANGED k_others

\* Logs of up to MaxMixed entries carry any values of KVals; longer logs, up
\* to MaxSends entries, carry the value 1 throughout.
SendAllowed(key, v) ==
    LET have == IF key \in DOMAIN k_logs THEN k_logs[key].messages ELSE <<>>
    IN  \/ Len(have) < MaxMixed
        \/ /\ Len(have) < MaxSends
           /\ v = 1
           /\ \A i \in 1..Len(have) : have[i][2] = 1

KSend(key, v) ==
    /\ KAlive
    /\ SendAllowed(key, v)
    /\ k_req' = [KReq("send") EXCEPT !.key = key, !.msg = v]
    /\ KHandleSend([KReq("send") EXCEPT !.key = key, !.msg = v])
    /\ k_count' = IF key \in DOMAIN k_count
                  THEN [k_count EXCEPT ![key] = @ + 1]
                  ELSE (key :> 1) @@ k_count
    /\ UNCHANGED <<k_named, k_queries>>
    /\ UNCHANGED k_others

KPoll(offsets) ==
    /\ KAlive
    /\ k_queries < MaxQueries
    /\ k_req' = [KReq("poll") EXCEPT !.offsets = offsets]
    /\ KHandlePoll([KReq("poll") EXCEPT !.offsets = offsets])
    /\ k_queries' = k_queries + 1
    /\ UNCHANGED <<k_count, k_named>>
    /\ UNCHANGED k_others

KCommitOffsets(offsets) ==
    /\ KAlive
    /\ k_queries < MaxQueries
    /\ k_req' = [KReq("commit_offsets") EXCEPT !.offsets = offsets]
    /\ KHandleCommitOffsets([KReq("commit_offsets") EXCEPT !.offsets = offsets])
    /\ k_named' = offsets @@ k_named
    /\ k_queries' = k_queries + 1
    /\ UNCHANGED k_count
    /\ UNCHANGED k_others

KListCommittedOffsets(keys) ==
    /\ KAlive
    /\ k_queries < MaxQueries
    /\ k_req' = [KReq("list_committed_offsets") EXCEPT !.keys = keys]
    /\ KHandleListCommittedOffsets(
          [KReq("list_committed_offsets") EXCEPT !.keys = keys])
    /\ k_queries' = k_queries + 1
    /\ UNCHANGED <<k_count, k_named>>
    /\ UNCHANGED k_others

LogInit == CounterIdle /\ TopologyIdle /\ GossipIdle /\ LogInitState /\ OthersIdle

LogNext ==
    \/ KInit
    \/ \E key \in Keys : \E v \in KVals : KSend(key, v)
    \/ \E offsets \in OffsetMaps(MaxPollOffset) : KPoll(offsets)
    \/ \E offsets \in OffsetMaps(MaxCommit) : KCommitOffsets(offsets)
    \/ \E keys \in KeyLists : KListCommittedOffsets(keys)

SpecLog == LogInit /\ [][LogNext]_vars

(***************************************************************************)
(* Claims about the log node.                                              *)
(***************************************************************************)
\* C13: for every key the stored entries have the offsets 0, 1, ...,
\* next_offset - 1 in this order, and the k-th send to a key is answered with
\* send_ok carrying offset k - 1.
C13_OffsetsContiguous ==
    /\ \A key \in DOMAIN k_logs :
          /\ Len(k_logs[key].messages) = k_logs[key].next_offset
          /\ \A i \in 1..Len(k_logs[key].messages) :
                k_logs[key].messages[i][1] = i - 1
    /\ k_req.type = "send" =>
          /\ k_reply.type = "send_ok"
          /\ k_reply.offset = k_count[k_req.key] - 1

\* A second send to a key has been answered.
C13_Witness ==
    /\ k_req.type = "send"
    /\ k_count[k_req.key] >= 2
    /\ k_reply.type = "send_ok"

\* The offsets of the entries of key that a poll from o has to consider.
AtOrBeyond(key, o) ==
    {k_logs[key].messages[i][1] : i \in
        {j \in 1..Len(k_logs[key].messages) : k_logs[key].messages[j][1] >= o}}

\* The least element of a non-empty set of numbers.
Least(S) == CHOOSE x \in S : \A y \in S : x <= y

\* C14: for every requested key that has a log, and its requested offset o,
\* poll_ok lists the entries with offset >= o in increasing offset order,
\* starting at the smallest such offset, without a gap, and stops after 20:
\* no entry below o, none skipped.
C14_PollListsFromOffset ==
    k_req.type = "poll" =>
       \A key \in DOMAIN k_req.offsets \cap DOMAIN k_logs :
          LET o == k_req.offsets[key]
              S == AtOrBeyond(key, o)
              r == k_reply.msgs[key]
          IN  /\ Len(r) = Min(PageSize, Cardinality(S))
              /\ \A j \in 1..Len(r) :
                    /\ r[j][1] = Least(S) + j - 1
                    /\ \E i \in 1..Len(k_logs[key].messages) :
                          k_logs[key].messages[i] = r[j]

\* A poll from an offset above 0 was answered with a full page that leaves
\* out entries on both sides.
C14_Witness ==
    /\ k_req.type = "poll"
    /\ \E key \in DOMAIN k_req.offsets \cap DOMAIN k_logs :
          /\ k_req.offsets[key] > 0
          /\ Len(k_reply.msgs[key]) = PageSize
          /\ Cardinality(AtOrBeyond(key, k_req.offsets[key])) > PageSize

\* C15: the keys of the poll_ok map are the requested keys that have a log; a
\* requested key without a log is not in the map, and a key with a log but no
\* entry at or beyond the requested offset is in it with an empty list.
C15_PollKeySet ==
    k_req.type = "poll" =>
       /\ DOMAIN k_reply.msgs = DOMAIN k_req.offsets \cap DOMAIN k_logs
       /\ \A key \in DOMAIN k_req.offsets \cap DOMAIN k_logs :
             AtOrBeyond(key, k_req.offsets[key]) = {} =>
                /\ key \in DOMAIN k_reply.msgs
                /\ k_reply.msgs[key] = <<>>

\* A poll asked for a key without a log and for a key whose log ends below the
\* requested offset.
C15_Witness ==
    /\ k_req.type = "poll"
    /\ \E key \in DOMAIN k_req.offsets : key \notin DOMAIN k_logs
    /\ \E key \in DOMAIN k_req.offsets \cap DOMAIN k_logs :
          AtOrBeyond(key, k_req.offsets[key]) = {}

\* C16: after a commit_offsets that names key k with offset o, a
\* list_committed_offsets that asks for k returns o for k, whether or not
\* anything was sent to k before, until a later commit names k again.
C16_CommitRoundTrip ==
    k_req.type = "list_committed_offsets" =>
       \A key \in SeqToSet(k_req.keys) \cap DOMAIN k_named :
          /\ key \in DOMAIN k_reply.offsets
          /\ k_reply.offsets[key] = k_named[key]

\* The same for the keys that had a log when the commit named them.
C16_KnownKeys ==
    [][k_req'.type = "commit_offsets" =>
          \A key \in DOMAIN k_req'.offsets \cap DOMAIN k_logs :
             k_logs'[key].committed = k_req'.offsets[key]]_vars

\* C17: the list_committed_offsets_ok map has an entry for the requested keys
\* that are in the log table and for no other key; the value is the key's
\* committed field, which is 0 for a key that no commit has named.
C17_ListKnownKeys ==
    k_req.type = "list_committed_offsets" =>
       /\ DOMAIN k_reply.offsets = SeqToSet(k_req.keys) \cap DOMAIN k_logs
       /\ \A key \in DOMAIN k_reply.offsets :
             /\ k_reply.offsets[key] = k_logs[key].committed
             /\ key \notin DOMAIN k_named => k_reply.offsets[key] = 0

\* A list asked for a key without a log, for a key that a commit has set to 1
\* and for nothing else.
C17_Witness ==
    /\ k_req.type = "list_committed_offsets"
    /\ \E key \in SeqToSet(k_req.keys) : key \notin DOMAIN k_logs
    /\ \E key \in DOMAIN k_reply.offsets : k_reply.offsets[key] = 1

\* C18: an init message read by a node that is initialised already is
\* answered with an error reply, and the node keeps running with its identity
\* and state as they were.
C18_SecondInitRecoverable ==
    [][(k_id # None /\ KInit) =>
          /\ ~k_crashed'
          /\ k_reply'.type = "error"
          /\ k_id' = k_id
          /\ k_logs' = k_logs]_vars

(***************************************************************************)
(* Claims about retry and acknowledgment.                                  *)
(***************************************************************************)
\* C11: every message of a node's unacknowledged set is emitted again, as it
\* is (same id, destination and payload), by every retry tick of the node, and
\* it stays in the set, unchanged, until the node handles an acknowledgment
\* whose in_reply_to is its id.
C11_RetryReemitsUnacknowledged ==
    [][ /\ \A p \in DOMAIN g_id :
              GRetryTick(p) =>
                 \A i \in 1..Len(g_unacknowledged[p]) :
                    g_unacknowledged[p][i] \in g_net'
        /\ \A p \in DOMAIN g_unacknowledged :
              \A i \in 1..Len(g_unacknowledged[p]) :
                 \/ g_unacknowledged[p][i] \in SeqToSet(g_unacknowledged'[p])
                 \/ <<g_unacknowledged[p][i].src, g_unacknowledged[p][i].id>>
                       \in g_acked'
      ]_vars

\* With no duplication by the network, a batch that its receiver has already
\* absorbed is in flight again: a retry tick has re-emitted it.
C11_Witness ==
    /\ g_faults.dup = 0
    /\ \E p \in DOMAIN g_unacknowledged : \E i \in 1..Len(g_unacknowledged[p]) :
          /\ g_unacknowledged[p][i] \in g_net
          /\ g_unacknowledged[p][i].messages # <<>>
          /\ \A j \in 1..Len(g_unacknowledged[p][i].messages) :
                g_unacknowledged[p][i].messages[j]
                   \in g_known[GProcOf(g_unacknowledged[p][i].dst)]

\* The unacknowledged set of the node called id holds a message with this id.
HoldsId(id, mid) ==
    \E p \in DOMAIN g_id :
       /\ g_id[p] = id
       /\ \E i \in 1..Len(g_unacknowledged[p]) : g_unacknowledged[p][i].id = mid

\* C12: once a node has handled an acknowledgment whose in_reply_to is the id
\* of a message m of its unacknowledged set, m is out of the set, and the node
\* never emits a message with m's id again.
C12_AckedNeverEmittedAgain ==
    /\ [](\A a \in g_acked : ~HoldsId(a[1], a[2]))
    /\ [][\A a \in g_acked : \A m \in g_net' \ g_net :
             ~(m.src = a[1] /\ m.id = a[2])]_vars

\* A node has had one message acknowledged, still has others unacknowledged,
\* and a message has been lost, so that a retry tick follows.
C12_Witness ==
    /\ g_faults.loss > 0
    /\ \E a \in g_acked : \E p \in DOMAIN g_id :
          /\ g_id[p] = a[1]
          /\ g_unacknowledged[p] # <<>>
          /\ \E i \in 1..Len(g_unacknowledged[p]) : g_unacknowledged[p][i] \in g_net

(***************************************************************************)
(* Claims about message ids and reply correlation.                         *)
(***************************************************************************)
\* The messages process p puts out in this step that are not re-sent from its
\* unacknowledged set.
Originated(p) ==
    {m \in (g_net' \cup g_out') \ (g_net \cup g_out) :
        m.src = NodeId(p - 1) /\ m \notin SeqToSet(g_unacknowledged[p])}

\* Everything of process p that is on record: in flight, written for a
\* client, or awaiting acknowledgment.
OnRecord(p) ==
    {m \in g_net \cup g_out : m.src = NodeId(p - 1)}
       \cup SeqToSet(g_unacknowledged[p])

\* C19: every message a node originates carries an id, the id of a newly
\* originated message is greater than every id the node allocated before, two
\* messages originated by a node never share an id, and an id appears again
\* only on the unchanged message that a retry re-sends.
C19_FreshIds ==
    /\ [](\A p \in DOMAIN g_msg_id :
             \A m1 \in OnRecord(p) :
                /\ m1.id # NoId
                /\ m1.id < g_msg_id[p]
                /\ \A m2 \in OnRecord(p) : m1.id = m2.id => m1 = m2)
    /\ [][\A p \in DOMAIN g_msg_id :
             /\ g_msg_id'[p] >= g_msg_id[p]
             /\ \A m1 \in Originated(p) :
                   /\ m1.id >= g_msg_id[p]
                   /\ m1.id < g_msg_id'[p]
                   /\ \A m2 \in Originated(p) : m1.id = m2.id => m1 = m2]_vars

\* A retried batchBroadcast is in flight while its node has gone on to
\* allocate later ids.
C19_Witness ==
    /\ g_faults.loss > 0
    /\ \E p \in DOMAIN g_unacknowledged : \E i \in 1..Len(g_unacknowledged[p]) :
          /\ g_unacknowledged[p][i] \in g_net
          /\ g_msg_id[p] > g_unacknowledged[p][i].id + 1

\* The ids of the counter node: every KV request and every reply of a
\* process carries its own id, below the process's next id.
C19_CounterIds ==
    \A p \in DOMAIN c_msg_id :
       LET mine == {m \in {s.m : s \in c_sent} \cup c_out : m.src = NodeNames[p]}
       IN  \A m1 \in mine :
              /\ m1.id # NoId
              /\ m1.id < c_msg_id[p]
              /\ \A m2 \in mine : m1.id = m2.id => m1 = m2

\* The reply type that answers a request type.
ReplyTypeOf(type) == IF type = "add" THEN "add_ok" ELSE "read_ok"

\* C20: every reply a counter node has written for a requester is addressed
\* to the sender of a request that this node has read and carries that
\* request's id as in_reply_to; an add is answered with add_ok and a read with
\* read_ok, however many KV rounds the request went through.
C20_RepliesCorrelated ==
    \A o \in c_out :
       IF o.type = "init_ok"
       THEN \E p \in DOMAIN c_id :
               /\ c_id[p] # None
               /\ o.src = InitMsg(p).dst
               /\ o.dst = InitMsg(p).src
               /\ o.in_reply_to = InitMsg(p).id
       ELSE \E r \in ReqIds :
               /\ o.in_reply_to = r
               /\ o.dst = c_reqs[r].client
               /\ o.src = NodeNames[c_reqs[r].proc]
               /\ o.type = ReplyTypeOf(c_reqs[r].type)

\* An add whose CAS was re-issued after a code 22 has been answered, and so
\* has a read.
C20_Witness ==
    /\ \E o \in c_out : o.type = "add_ok" /\ o.in_reply_to \in c_retried
    /\ \E o \in c_out : o.type = "read_ok"

(***************************************************************************)
(* The unique-id node (guid.rs).  main spawns one handle_msg task per line *)
(* of input on a LocalSet; a task runs until it awaits (the id mutex, the  *)
(* output mutex), where another task may run.                              *)
(***************************************************************************)
GuidNodes == 2
MaxGen == 2
MaxGenDup == 1

\* Distinct node ids, some a prefix of another.
GuidIds == << <<"n", "1">>, <<"n", "1", "1">>, <<"n", "1", "-", "1">>,
              <<"n", "1", "1", "-", "1">> >>
UProcs == 1..GuidNodes

\* format!("{}-{}", node_id, msg_id)
FormatId(node_id, msg_id) == node_id \o <<"-">> \o U64ToString(msg_id)

u_others == <<c_vars, t_vars, g_vars, k_vars, w_vars, l_vars>>

\* The Init arm; the harness sends nothing else until init_ok is written.
GuidHandleInit(p) ==
    /\ u_id[p] = None
    /\ u_id' = [u_id EXCEPT ![p] = GuidIds[p]]
    /\ u_msg_id' = [u_msg_id EXCEPT ![p] = @ + 1]
    /\ UNCHANGED u_tasks
    /\ UNCHANGED u_others

\* The generate requests process p has read, and those read more than once.
GenReqs(p) == {u_tasks[p][t].req : t \in 1..Len(u_tasks[p])}

GenDups == LET RECURSIVE Sum(_)
               Sum(q) == IF q = 0 THEN 0
                         ELSE Len(u_tasks[q]) - Cardinality(GenReqs(q)) + Sum(q - 1)
           IN  Sum(GuidNodes)

\* main reads a generate request and spawns its handler: a new request, or
\* one that the network has duplicated.
GuidSpawn(p, req) ==
    /\ u_id[p] # None
    /\ \/ req = Cardinality(GenReqs(p)) + 1
       \/ req \in GenReqs(p) /\ GenDups < MaxGenDup
    /\ u_tasks' = [u_tasks EXCEPT ![p] =
          Append(@, [req |-> req, pc |-> "spawned", msg_id |-> NoId, text |-> <<>>])]
    /\ UNCHANGED <<u_id, u_msg_id>>
    /\ UNCHANGED u_others

\* A task that loads msg_id without adding to it.
GuidLoad(p, t) ==
    /\ u_tasks[p][t].pc = "spawned"
    /\ u_tasks' = [u_tasks EXCEPT ![p][t].pc = "counted",
                                  ![p][t].msg_id = u_msg_id[p]]
    /\ UNCHANGED <<u_id, u_msg_id>>
    /\ UNCHANGED u_others

\* let msg_id = node.msg_id.fetch_add(1, Ordering::SeqCst)
GuidFetchAdd(p, t) ==
    /\ u_tasks[p][t].pc = "spawned"
    /\ u_tasks' = [u_tasks EXCEPT ![p][t].pc = "counted",
                                  ![p][t].msg_id = u_msg_id[p]]
    /\ u_msg_id' = [u_msg_id EXCEPT ![p] = @ + 1]
    /\ UNCHANGED u_id
    /\ UNCHANGED u_others

\* node.id.lock().await, then format! of the id
GuidFormat(p, t) ==
    /\ u_tasks[p][t].pc = "counted"
    /\ u_tasks' = [u_tasks EXCEPT ![p][t].pc = "formatted",
                                  ![p][t].text = FormatId(u_id[p], u_tasks[p][t].msg_id)]
    /\ UNCHANGED <<u_id, u_msg_id>>
    /\ UNCHANGED u_others

\* reply.send(output).await: generate_ok is written
GuidSend(p, t) ==
    /\ u_tasks[p][t].pc = "formatted"
    /\ u_tasks' = [u_tasks EXCEPT ![p][t].pc = "sent"]
    /\ UNCHANGED <<u_id, u_msg_id>>
    /\ UNCHANGED u_others

GuidInitState ==
    /\ u_id = [p \in UProcs |-> None]
    /\ u_msg_id = [p \in UProcs |-> 1]
    /\ u_tasks = [p \in UProcs |-> <<>>]

GuidInit ==
    CounterIdle /\ TopologyIdle /\ GossipIdle /\ LogIdle /\ GuidInitState
       /\ RetryCallIdle /\ ClusterIdle

GuidNext ==
    \/ \E p \in UProcs : GuidHandleInit(p)
    \/ \E p \in UProcs : \E req \in 1..MaxGen : GuidSpawn(p, req)
    \/ \E p \in UProcs : \E t \in 1..Len(u_tasks[p]) : GuidFetchAdd(p, t)
    \/ \E p \in UProcs : \E t \in 1..Len(u_tasks[p]) : GuidFormat(p, t)
    \/ \E p \in UProcs : \E t \in 1..Len(u_tasks[p]) : GuidSend(p, t)

SpecGuid == GuidInit /\ [][GuidNext]_vars

\* The tasks that have formatted their id, as <<process, task>>.
Formatted ==
    {pt \in UProcs \X (1..(MaxGen + MaxGenDup)) :
        /\ pt[2] <= Len(u_tasks[pt[1]])
        /\ u_tasks[pt[1]][pt[2]].pc \in {"formatted", "sent"}}

\* C21: with distinct node ids, the id strings of generate_ok are pairwise
\* distinct across all nodes and all generate requests, duplicated requests
\* included, however the handler tasks interleave.
C21_IdsPairwiseDistinct ==
    \A a \in Formatted : \A b \in Formatted :
       a # b => u_tasks[a[1]][a[2]].text # u_tasks[b[1]][b[2]].text

\* Both nodes have answered, one of them the same request twice, and two
\* tasks of a node passed each other between taking the id and sending.
C21_Witness ==
    /\ \A p \in UProcs : \E t \in 1..Len(u_tasks[p]) : u_tasks[p][t].pc = "sent"
    /\ \E p \in UProcs : \E t1, t2 \in 1..Len(u_tasks[p]) :
          /\ t1 < t2
          /\ u_tasks[p][t1].req = u_tasks[p][t2].req
          /\ u_tasks[p][t1].pc = "sent" /\ u_tasks[p][t2].pc = "sent"
          /\ u_tasks[p][t1].msg_id > u_tasks[p][t2].msg_id

(***************************************************************************)
(* The flush tick and the two broadcast arms, step by step.                *)
(***************************************************************************)
\* The batchBroadcast messages a process holds unacknowledged.
Unacked(p) == SeqToSet(g_unacknowledged[p])

AllUnacked == UNION {Unacked(p) : p \in DOMAIN g_id}

\* The batch that process p keeps for the node n (empty without an entry).
BatchFor(p, n) ==
    IF n \in DOMAIN g_next_batch[p] THEN g_next_batch[p][n] ELSE <<>>

\* The same after the step.
BatchForNext(p, n) ==
    IF n \in DOMAIN g_next_batch'[p] THEN g_next_batch'[p][n] ELSE <<>>

\* C22: no batchBroadcast with an empty value list is ever emitted or added
\* to the unacknowledged set.
C22_NoEmptyBatchEmitted ==
    \A m \in g_net \cup AllUnacked :
       m.type = "batch_broadcast" => m.messages # <<>>

\* A flush emits a message for every neighbour whose batch is not empty.
C22_NonEmptyBatchesFlushed ==
    [][\A p \in DOMAIN g_id :
          Len(g_unacknowledged'[p]) > Len(g_unacknowledged[p]) =>
             \A n \in DOMAIN g_next_batch[p] :
                g_next_batch[p][n] # <<>> =>
                   \E m \in Unacked(p)' \cap g_net' :
                      m.dst = n /\ m.messages = g_next_batch[p][n]]_vars

\* C23: handling a client broadcast(value) inserts the value into the known
\* set, appends it to the batch of every current neighbour and emits
\* broadcast_ok in reply to the request in that same step, while no
\* batchBroadcast carrying the value has been emitted.
C23_ClientBroadcastStep ==
    [][Len(g_bcast') > Len(g_bcast) =>
         LET b == g_bcast'[Len(g_bcast')]
             p == b.proc
         IN  /\ g_known'[p] = g_known[p] \cup {b.value}
             /\ \A j \in 1..Len(g_neighbors[p]) :
                   BatchForNext(p, g_neighbors[p][j]) =
                      Append(BatchFor(p, g_neighbors[p][j]), b.value)
             /\ DOMAIN g_next_batch'[p] =
                   DOMAIN g_next_batch[p] \cup SeqToSet(g_neighbors[p])
             /\ \E o \in g_out' \ g_out :
                   /\ g_out' = g_out \cup {o}
                   /\ o.type = "broadcast_ok" /\ o.in_reply_to = Len(g_bcast) + 3
                   /\ o.src = NodeId(p - 1) /\ o.dst = GClient
             /\ g_net' = g_net /\ g_unacknowledged' = g_unacknowledged
             /\ \A m \in g_net' \cup AllUnacked' :
                   m.type = "batch_broadcast" =>
                      b.value \notin SeqToSet(m.messages)]_vars

\* A client has broadcast at a node with two neighbours, which has answered
\* and holds the value in both batches, nothing being in flight.
C23_Witness ==
    \E i \in 1..Len(g_bcast) :
       LET p == g_bcast[i].proc
       IN  /\ Len(g_neighbors[p]) >= 2
           /\ \A j \in 1..Len(g_neighbors[p]) :
                 BatchFor(p, g_neighbors[p][j]) = <<g_bcast[i].value>>
           /\ \E o \in g_out : o.type = "broadcast_ok" /\ o.in_reply_to = i + 2
                                 /\ o.src = NodeId(p - 1)
           /\ g_net = {}

\* The values of a list that are not in known, each once, in order.
RECURSIVE NewValues(_, _)
NewValues(known, messages) ==
    IF messages = <<>> THEN <<>>
    ELSE IF Head(messages) \in known THEN NewValues(known, Tail(messages))
         ELSE <<Head(messages)>> \o NewValues(known \cup {Head(messages)}, Tail(messages))

\* The step delivers the batchBroadcast m to its receiver.
DeliversBatch(m) ==
    /\ m.type = "batch_broadcast"
    /\ GDeliver(m) \/ GDeliverDup(m)

\* C24: on batchBroadcast(values) from neighbour p each value not yet known
\* is inserted and appended to the batch of every neighbour except p, never
\* to p's batch, and exactly one broadcast_ok with in_reply_to equal to the
\* batch's id is sent to p, whether or not any value was new.
C24_PeerBatchStep ==
    [][\A m \in g_net :
          DeliversBatch(m) =>
             LET q == GProcOf(m.dst)
                 new == NewValues(g_known[q], m.messages)
             IN  /\ g_known'[q] = g_known[q] \cup SeqToSet(m.messages)
                 /\ \A j \in 1..Len(g_neighbors[q]) :
                       BatchForNext(q, g_neighbors[q][j]) =
                          IF g_neighbors[q][j] = m.src
                          THEN BatchFor(q, g_neighbors[q][j])
                          ELSE BatchFor(q, g_neighbors[q][j]) \o new
                 /\ BatchForNext(q, m.src) = BatchFor(q, m.src)
                 /\ \E a \in g_net' \ g_net :
                       /\ g_net' \ g_net = {a}
                       /\ a.type = "broadcast_ok" /\ a.in_reply_to = m.id
                       /\ a.dst = m.src /\ a.src = m.dst
                 /\ g_out' = g_out]_vars

\* A node with two neighbours has taken a new value from one of them and
\* batched it for the other only; and a batch without any new value has
\* been acknowledged as well.
C24_Witness ==
    /\ \E q \in DOMAIN g_id : \E a \in g_net :
          /\ a.type = "broadcast_ok" /\ a.src = NodeId(q - 1)
          /\ Len(g_neighbors[q]) >= 2
          /\ BatchFor(q, a.dst) = <<>>
          /\ \E j \in 1..Len(g_neighbors[q]) :
                g_neighbors[q][j] # a.dst /\ BatchFor(q, g_neighbors[q][j]) # <<>>
    /\ g_again > 0

HandledReply(m) ==
    \/ m.type \in {"read_ok", "cas_ok"}
    \/ m.type = "error" /\ m.code = 22 /\ m.text # NoStr

\* The step is process p reading m.
Reads(p, m) == NodeRecv(p, m) \/ NodeRecvDup(p, m)

\* C25: a reply (read_ok, cas_ok or precondition-failed error) whose
\* in_reply_to matches no entry of the unacknowledged list leaves the whole
\* state of the node unchanged and causes no message to be emitted.
C25_DuplicateReplyIgnored ==
    [][\A p \in DOMAIN c_id : \A m \in c_net :
          (/\ HandledReply(m)
           /\ FirstMatch(c_unacknowledged[p], m.in_reply_to) = 0
           /\ Reads(p, m)) =>
             /\ UNCHANGED <<c_id, c_msg_id, c_unacknowledged, c_request_map,
                            c_crashed, c_out, c_kv>>
             /\ c_net' \subseteq c_net]_vars

\* A node has ignored a reply that came after it had answered the add the
\* reply belongs to, and is still running.
C25_Witness ==
    \E p \in c_ignored :
       /\ ~c_crashed[p]
       /\ \E o \in c_out : o.type = "add_ok" /\ o.src = c_id[p]

\* The same for the gossip node: a broadcast_ok that matches no entry of the
\* unacknowledged list changes nothing and emits nothing.
C25_LateBroadcastOkIgnored ==
    [][\A m \in g_net :
          (/\ m.type = "broadcast_ok"
           /\ FirstMatch(g_unacknowledged[GProcOf(m.dst)], m.in_reply_to) = 0
           /\ GDeliver(m) \/ GDeliverDup(m)) =>
             /\ UNCHANGED <<g_id, g_msg_id, g_known, g_neighbors, g_nodes,
                            g_next_batch, g_unacknowledged, g_out>>
             /\ g_net' \subseteq g_net]_vars

\* The entries of every request_map are those of the client requests they
\* were made for: <<client id, request id, delta>>.
EntriesCarried ==
    \A p \in DOMAIN c_id : \A k \in DOMAIN c_request_map[p] :
       LET entry == c_request_map[p][k]
       IN  /\ entry[2] \in ReqIds
           /\ entry[1] = c_reqs[entry[2]].client
           /\ entry[3] = c_reqs[entry[2]].delta

\* The ids of the messages process p has sent so far.
SentIds(p) == {s.m.id : s \in {x \in c_sent : x.m.src = c_id[p]}}

\* C28: on a precondition-failed reply to the CasKv of an add the node
\* issues a new CasKv under a fresh message id whose from is the current
\* value the store reports in the error text and whose to is that value
\* plus the delta of the same add; delta and requester are carried
\* unchanged over the retries.
C28_CasRetry ==
    /\ []EntriesCarried
    /\ [][\A p \in DOMAIN c_id : \A m \in c_net :
             (/\ m.type = "error" /\ m.code = 22
              /\ FirstMatch(c_unacknowledged[p], m.in_reply_to) # 0
              /\ m.in_reply_to \in DOMAIN c_request_map[p]
              /\ NodeRecv(p, m)) =>
                LET old == c_unacknowledged[p][FirstMatch(c_unacknowledged[p], m.in_reply_to)]
                    entry == c_request_map[p][m.in_reply_to]
                IN  \E cas \in c_net' \ c_net :
                       /\ c_net' \ c_net = {cas}
                       /\ cas.type = "cas" /\ cas.src = c_id[p] /\ cas.dst = SEQ_KV
                       /\ ~cas.create
                       /\ cas.id = c_msg_id[p] /\ cas.id \notin SentIds(p)
                       /\ c_msg_id'[p] > cas.id
                       /\ m.text = TextCurrentValue \o cas.from \o TextIsNot \o old.from
                       /\ cas.to = U64ToString(Parse(cas.from) + c_reqs[entry[2]].delta)
                       /\ c_request_map'[p] =
                             MapInsert(MapRemove(c_request_map[p], m.in_reply_to),
                                       cas.id, entry)
                       /\ cas \in SeqToSet(c_unacknowledged'[p])
                       /\ old \notin SeqToSet(c_unacknowledged'[p])
                       /\ c_out' = c_out]_vars

\* An add that lost the race for the counter has been answered after its
\* CAS was issued again, and the counter holds both deltas.
C28_Witness ==
    /\ \E r \in c_retried : Acked(r, "add_ok") /\ c_reqs[r].delta > 0
    /\ c_kv = U64ToString(2)

\* C29: with finitely many add requests, every message delivered and every
\* request answered by the store, every add request is eventually answered
\* with add_ok.
C29_EveryAddAnswered ==
    \A r \in 1..MaxReqs : (r \in AddIds) ~> Acked(r, "add_ok")

\* Every add is eventually answered unless the node it was sent to aborts.
C29_AnsweredUnlessAborted ==
    \A r \in 1..MaxReqs :
       (r \in AddIds) ~>
          (r \in AddIds /\ (Acked(r, "add_ok") \/ c_crashed[c_reqs[r].proc]))

\* C30: an error reply of the store that is not a precondition-failed error
\* with a text aborts the node: no retry and no reply is issued for it, and
\* the node handles no further message.
C30_FatalErrors ==
    /\ [][\A p \in DOMAIN c_id : \A m \in c_net :
             (m.type = "error" /\ ~(m.code = 22 /\ m.text # NoStr) /\ NodeRecv(p, m)) =>
                /\ c_crashed'[p]
                /\ c_net' \subseteq c_net
                /\ UNCHANGED <<c_out, c_unacknowledged, c_request_map, c_msg_id, c_kv>>]_vars
    /\ [][\A p \in DOMAIN c_id :
             c_crashed[p] =>
                /\ c_crashed'[p]
                /\ c_id'[p] = c_id[p] /\ c_msg_id'[p] = c_msg_id[p]
                /\ c_unacknowledged'[p] = c_unacknowledged[p]
                /\ c_request_map'[p] = c_request_map[p]
                /\ \A x \in (c_net' \ c_net) \cup (c_out' \ c_out) : x.src # c_id[p]
                /\ \A x \in c_net \ c_net' : x.dst # c_id[p]]_vars

\* Nothing has been stored yet, so every reply so far was such an error:
\* a node has aborted on one and leaves a client request unanswered.
C30_Witness ==
    /\ c_kv = Absent
    /\ \E p \in DOMAIN c_id :
          /\ c_crashed[p]
          /\ c_request_map[p] # <<>>
          /\ \A o \in c_out : o.src = c_id[p] => o.type = "init_ok"

(***************************************************************************)
(* Message::send_with_retry (lib.rs).  The call registers a oneshot sender *)
(* in the callback table and spawns a task on the LocalSet; the task runs  *)
(* until it awaits: the output mutex, the write, or the select!.  The      *)
(* output is shared by all tasks; Message::send holds its mutex from       *)
(* lock().await until the write has been flushed.                          *)
(***************************************************************************)
MaxCalls == 2
MaxTicks == 2

WNode == <<"n", "1">>
WPeer == <<"n", "2">>

WMsg(src, dst, id, irt, type) ==
    [src |-> src, dst |-> dst, id |-> id, in_reply_to |-> irt, type |-> type]

\* An empty oneshot channel, and a task that has not returned.
WNone == WMsg(<<>>, <<>>, NoId, NoId, "none")

\* The request of the call with message id `id`, and the reply to it.
WRequest(id) == WMsg(WNode, WPeer, id, NoId, "request")
WReply(id) == WMsg(WPeer, WNode, id, id, "reply")

w_others == <<c_vars, t_vars, g_vars, k_vars, u_vars, l_vars>>

\* self.send(output): output.lock().await, then the write.  A task that
\* finds the mutex taken waits for it; otherwise the request is written.
WSend(c, calls1) ==
    IF w_output = 0
    THEN /\ w_output' = c
         /\ w_calls' = [calls1 EXCEPT ![c].pc = "flushing"]
         /\ w_emitted' = Append(w_emitted,
               [call |-> c, msg |-> w_calls[c].msg,
                first |-> w_calls[c].pc = "spawned",
                registered |-> w_calls[c].msg.id \in w_callbacks,
                resolved |-> w_calls[c].rx # WNone])
    ELSE /\ w_calls' = [calls1 EXCEPT ![c].pc = "locking"]
         /\ UNCHANGED <<w_output, w_emitted>>

\* send_with_retry up to its return: the waiter is inserted under the
\* message id and the task is spawned.
WCall ==
    /\ Len(w_calls) < MaxCalls
    /\ w_callbacks' = w_callbacks \cup {Len(w_calls) + 1}
    /\ w_calls' = Append(w_calls,
          [msg |-> WRequest(Len(w_calls) + 1), pc |-> "spawned", ticks |-> 0,
           rx |-> WNone, result |-> WNone])
    /\ UNCHANGED <<w_output, w_emitted>>
    /\ UNCHANGED w_others

\* The task is polled for the first time: self.send(output.clone()).await
WStart(c) ==
    /\ w_calls[c].pc = "spawned"
    /\ WSend(c, w_calls)
    /\ UNCHANGED w_callbacks
    /\ UNCHANGED w_others

\* A task waiting for the output mutex gets it.
WLocked(c) ==
    /\ w_calls[c].pc = "locking"
    /\ w_output = 0
    /\ WSend(c, w_calls)
    /\ UNCHANGED w_callbacks
    /\ UNCHANGED w_others

\* The write is flushed and the mutex released; the task goes to select!.
WFlushed(c) ==
    /\ w_calls[c].pc = "flushing"
    /\ w_output' = 0
    /\ w_calls' = [w_calls EXCEPT ![c].pc = "waiting"]
    /\ UNCHANGED <<w_callbacks, w_emitted>>
    /\ UNCHANGED w_others

\* select! { biased; m = &mut rx => .., _ = interval.tick() => send }: the
\* tick arm is taken only when rx is not ready.
WTick(c) ==
    /\ w_calls[c].pc = "waiting"
    /\ w_calls[c].rx = WNone
    /\ w_calls[c].ticks < MaxTicks
    /\ WSend(c, [w_calls EXCEPT ![c].ticks = @ + 1])
    /\ UNCHANGED w_callbacks
    /\ UNCHANGED w_others

\* The rx arm: return m.map_err(..)
WReturn(c) ==
    /\ w_calls[c].pc = "waiting"
    /\ w_calls[c].rx # WNone
    /\ w_calls' = [w_calls EXCEPT ![c].pc = "returned", ![c].result = w_calls[c].rx]
    /\ UNCHANGED <<w_callbacks, w_output, w_emitted>>
    /\ UNCHANGED w_others

\* The call's request has been written at least once.
Emitted(c) == \E i \in 1..Len(w_emitted) : w_emitted[i].call = c

\* The dispatcher reads a reply to an emitted request whose waiter is in
\* the table: it removes the waiter and sends the reply through it.
WResolve(c) ==
    /\ w_calls[c].msg.id \in w_callbacks
    /\ Emitted(c)
    /\ w_callbacks' = w_callbacks \ {w_calls[c].msg.id}
    /\ w_calls' = [w_calls EXCEPT ![c].rx = WReply(w_calls[c].msg.id)]
    /\ UNCHANGED <<w_output, w_emitted>>
    /\ UNCHANGED w_others

RetryCallInit ==
    CounterIdle /\ TopologyIdle /\ GossipIdle /\ LogIdle /\ GuidIdle
       /\ RetryCallIdle /\ ClusterIdle

RetryCallNext ==
    \/ WCall
    \/ \E c \in 1..Len(w_calls) : WStart(c)
    \/ \E c \in 1..Len(w_calls) : WLocked(c)
    \/ \E c \in 1..Len(w_calls) : WFlushed(c)
    \/ \E c \in 1..Len(w_calls) : WTick(c)
    \/ \E c \in 1..Len(w_calls) : WReturn(c)
    \/ \E c \in 1..Len(w_calls) : WResolve(c)

SpecRetryCall == RetryCallInit /\ [][RetryCallNext]_vars

\* How often the request of call c has been written.
EmittedCount(c) ==
    Cardinality({i \in 1..Len(w_emitted) : w_emitted[i].call = c})

\* C26: the waiter is registered under the request's message id before the
\* request is first emitted; the identical request is emitted again on each
\* retry tick until the waiter is resolved; once a reply has resolved the
\* waiter the request is never emitted again and the task returns that
\* reply; the task never completes without a resolution.
C26_SendWithRetry ==
    /\ \A i \in 1..Len(w_emitted) :
          /\ w_emitted[i].first => w_emitted[i].registered
          /\ w_emitted[i].msg = WRequest(w_calls[w_emitted[i].call].msg.id)
          /\ ~w_emitted[i].resolved
    /\ \A c \in 1..Len(w_calls) :
          /\ w_calls[c].pc \in {"waiting", "returned"} =>
                EmittedCount(c) = 1 + w_calls[c].ticks
          /\ w_calls[c].pc = "returned" =>
                /\ w_calls[c].result = WReply(w_calls[c].msg.id)
                /\ w_calls[c].msg.id \notin w_callbacks

\* The parts of C26 about registration, the retries and the return.
C26_RegisteredRetriedReturned ==
    /\ \A i \in 1..Len(w_emitted) :
          /\ w_emitted[i].first => w_emitted[i].registered
          /\ w_emitted[i].msg = WRequest(w_calls[w_emitted[i].call].msg.id)
    /\ \A c \in 1..Len(w_calls) :
          /\ w_calls[c].pc \in {"waiting", "returned"} =>
                EmittedCount(c) = 1 + w_calls[c].ticks
          /\ w_calls[c].pc = "returned" =>
                /\ w_calls[c].result = WReply(w_calls[c].msg.id)
                /\ w_calls[c].msg.id \notin w_callbacks

\* A request is written after its waiter was resolved only by a task that
\* had taken the tick arm before and was waiting for the output mutex, and
\* at most once.
C26_AtMostOneLateEmission ==
    \A c \in 1..Len(w_calls) :
       Cardinality({i \in 1..Len(w_emitted) :
                       w_emitted[i].call = c /\ w_emitted[i].resolved}) <= 1

(***************************************************************************)
(* A cluster of log nodes: one kafka.rs process per node.  Node has no     *)
(* field for its peers and no arm of handle_msg sends to another node, so  *)
(* the processes share nothing.                                            *)
(***************************************************************************)
LogNodes == 2
MaxClusterSends == 2
MaxClusterPolls == 2

LProcs == 1..LogNodes

l_others == <<c_vars, t_vars, g_vars, k_vars, u_vars, w_vars>>

\* The Init arm at process p.
LHandleInit(p) ==
    /\ l_id[p] = None
    /\ l_id' = [l_id EXCEPT ![p] = NodeId(p - 1)]
    /\ l_msg_id' = [l_msg_id EXCEPT ![p] = @ + 1]
    /\ UNCHANGED <<l_logs, l_acked, l_polls>>
    /\ UNCHANGED l_others

\* The Send arm at process p; the send_ok written is recorded.
LHandleSend(p, key, v) ==
    /\ l_id[p] # None
    /\ Cardinality(l_acked) < MaxClusterSends
    /\ LET logs == OrDefault(l_logs[p], key)
       IN  /\ l_logs' = [l_logs EXCEPT ![p] = [logs EXCEPT ![key] = Appended(@, v)]]
           /\ l_acked' = l_acked \cup
                 {[node |-> p, id |-> l_msg_id[p], key |-> key,
                   offset |-> logs[key].next_offset, msg |-> v]}
    /\ l_msg_id' = [l_msg_id EXCEPT ![p] = @ + 1]
    /\ UNCHANGED <<l_id, l_polls>>
    /\ UNCHANGED l_others

\* The Poll arm at process p for one key; the poll_ok written is recorded
\* with the sends acknowledged before it.
LHandlePoll(p, key, o) ==
    /\ l_id[p] # None
    /\ Cardinality(l_polls) < MaxClusterPolls
    /\ l_polls' = l_polls \cup
          {[node |-> p, id |-> l_msg_id[p], key |-> key, offset |-> o,
            msgs |-> PollMsgs(l_logs[p], (key :> o)), acked |-> l_acked]}
    /\ l_msg_id' = [l_msg_id EXCEPT ![p] = @ + 1]
    /\ UNCHANGED <<l_id, l_logs, l_acked>>
    /\ UNCHANGED l_others

ClusterInit ==
    /\ CounterIdle /\ TopologyIdle /\ GossipIdle /\ LogIdle /\ GuidIdle
    /\ RetryCallIdle
    /\ l_id = [p \in LProcs |-> None]
    /\ l_msg_id = [p \in LProcs |-> 1]
    /\ l_logs = [p \in LProcs |-> <<>>]
    /\ l_acked = {}
    /\ l_polls = {}

ClusterNext ==
    \/ \E p \in LProcs : LHandleInit(p)
    \/ \E p \in LProcs : \E key \in Keys : \E v \in KVals : LHandleSend(p, key, v)
    \/ \E p \in LProcs : \E key \in Keys : \E o \in 0..MaxPollOffset :
          LHandlePoll(p, key, o)

SpecCluster == ClusterInit /\ [][ClusterNext]_vars

\* The poll reply q lists the entry that the send_ok a acknowledged.
Lists(q, a) ==
    /\ q.key \in DOMAIN q.msgs
    /\ <<a.offset, a.msg>> \in SeqToSet(q.msgs[q.key])

\* C31: an entry appended at one node and acknowledged with send_ok{offset}
\* is returned by a later poll for that key and offset at every other node,
\* and no two acknowledged sends for a key are given the same offset.
C31_Replicated ==
    /\ \A q \in l_polls : \A a \in q.acked :
          (a.node # q.node /\ a.key = q.key /\ a.offset = q.offset) => Lists(q, a)
    /\ \A a, b \in l_acked :
          (a # b /\ a.key = b.key) => a.offset # b.offset

\* At the node that acknowledged it the entry is listed, and the offsets
\* that one node gives for a key differ.
C31_AtTheSameNode ==
    /\ \A q \in l_polls : \A a \in q.acked :
          (a.node = q.node /\ a.key = q.key /\ a.offset = q.offset) => Lists(q, a)
    /\ \A a, b \in l_acked :
          (a # b /\ a.key = b.key /\ a.node = b.node) => a.offset # b.offset

(***************************************************************************)
(* The seed of the counter, the counter key and the value stored under it. *)
(***************************************************************************)
\* The request with message id `id` of process p is its seed CasKv.
IsSeed(p, id) ==
    \E s \in c_sent : s.for = "seed" /\ s.m.src = c_id[p] /\ s.m.id = id

\* C32: a precondition-failed (code 22) reply to a node's own seed CasKv is
\* absorbed without aborting the node, which stays able to serve later add
\* and read requests.
C32_SeedFailureAbsorbed ==
    [][\A p \in DOMAIN c_id : \A m \in c_net :
          (/\ m.type = "error" /\ m.code = 22 /\ m.text # NoStr
           /\ IsSeed(p, m.in_reply_to)
           /\ FirstMatch(c_unacknowledged[p], m.in_reply_to) # 0
           /\ NodeRecv(p, m)) => ~c_crashed'[p]]_vars

\* The seed of a node that meets the value 0, or no value, is acknowledged
\* and leaves the node running.
C32_SeedSucceedsOnZero ==
    [][\A p \in DOMAIN c_id : \A m \in c_net :
          (m.type = "cas_ok" /\ IsSeed(p, m.in_reply_to) /\ NodeRecv(p, m)) =>
             /\ ~c_crashed'[p]
             /\ c_out' = c_out
             /\ FirstMatch(c_unacknowledged'[p], m.in_reply_to) = 0]_vars

\* C33: whenever the store processes a ReadKv or a non-creating CasKv of a
\* node, the counter key exists, so that no key-does-not-exist error ever
\* reaches a node.
C33_KeyExists ==
    /\ \A m \in c_net :
          (m.dst = SEQ_KV /\ m.type = "cas" /\ ~m.create) => c_kv # Absent
    /\ \A m \in c_net : ~(m.type = "error" /\ m.code = 20)

\* The half of C33 about CasKv: a non-creating CasKv is sent only after a
\* read_ok, and finds the key.
C33_CasFindsKey ==
    \A m \in c_net :
       (m.dst = SEQ_KV /\ m.type = "cas" /\ ~m.create) => c_kv # Absent

\* The step is the store processing request m.
Serves(m) == KvStep(m) \/ KvStepDup(m)

\* C34: the value stored under the counter key never decreases: every
\* CasKv a node issues has to >= from, and the seed never overwrites an
\* existing value.
C34_CounterMonotone ==
    /\ [](\A s \in c_sent :
             s.m.type = "cas" => Parse(s.m.to) >= Parse(s.m.from))
    /\ [][c_kv # Absent =>
             (c_kv' # Absent /\ Parse(c_kv') >= Parse(c_kv))]_vars
    /\ [][\A m \in c_net :
             (m.dst = SEQ_KV /\ m.type = "cas" /\ m.create /\ c_kv # Absent
              /\ Serves(m)) => c_kv' = c_kv]_vars

\* The store has processed a seed when the counter was above 0 already,
\* and answered precondition-failed.
C34_Witness ==
    /\ c_kv # Absent
    /\ Parse(c_kv) >= 1
    /\ \E m \in c_net : \E p \in DOMAIN c_id :
          /\ m.type = "error" /\ m.code = 22 /\ m.dst = c_id[p]
          /\ IsSeed(p, m.in_reply_to)

\* The add_ok and read_ok replies written for the client request r.
RepliesTo(r) ==
    {o \in c_out : /\ o.type \in {"add_ok", "read_ok"}
                   /\ o.in_reply_to = r
                   /\ o.dst = c_reqs[r].client}

\* C37: for each add or read request of a client the node emits at most
\* one add_ok or read_ok, however often the store's replies to its KV
\* requests are duplicated, reordered or caused by re-sent requests.
C37_AtMostOneReply ==
    \A r \in ReqIds : Cardinality(RepliesTo(r)) <= 1

\* An add and a read have been answered, and a reply of the store that came
\* again has been ignored.
C37_Witness ==
    /\ c_ignored # {}
    /\ \E r \in AddIds : RepliesTo(r) # {}
    /\ \E r \in ReadIds : RepliesTo(r) # {}

\* The ids of the unacknowledged KV requests of p other than its seed.
PendingIds(p) ==
    {m.id : m \in {x \in SeqToSet(c_unacknowledged[p]) : ~IsSeed(p, x.id)}}

\* C38: after every handled message the keys of request_map are exactly
\* the message ids of the unacknowledged KV requests that serve an add or a
\* read of a client.
C38_RequestMapMatchesUnacknowledged ==
    \A p \in DOMAIN c_id :
       ~c_crashed[p] => DOMAIN c_request_map[p] = PendingIds(p)

\* A node whose seed is still unacknowledged holds the entry of an add
\* whose CAS it has issued again.
C38_Witness ==
    \E p \in DOMAIN c_id :
       /\ ~c_crashed[p]
       /\ \E m \in SeqToSet(c_unacknowledged[p]) : IsSeed(p, m.id)
       /\ \E k \in DOMAIN c_request_map[p] : c_request_map[p][k][2] \in c_retried

\* Node a lists node b among its neighbours.
TopoLists(a, b) == NodeId(b - 1) \in SeqToSet(t_neighbors[a].neighbors)

\* The nodes reached from the set S over at most fuel neighbour links.
RECURSIVE TopoReach(_, _)
TopoReach(S, fuel) ==
    LET T == S \cup {b \in TProcs : \E a \in S : TopoLists(a, b)}
    IN  IF fuel = 0 \/ T = S THEN S ELSE TopoReach(T, fuel - 1)

\* C36: once all nodes have built their topology, a lists b as a neighbour
\* if and only if b lists a, b is the parent of a exactly when a is among
\* the children of b, no node lists itself, and the neighbour graph is
\* connected.
C36_NeighborsSymmetric ==
    TopoBuilt =>
        /\ \A a, b \in TProcs :
              /\ TopoLists(a, b) <=> TopoLists(b, a)
              /\ (t_neighbors[a].parent = <<NodeId(b - 1)>>)
                    <=> (NodeId(a - 1) \in SeqToSet(t_neighbors[b].children))
        /\ \A a \in TProcs : ~TopoLists(a, a)
        /\ \A a \in TProcs : TopoReach({a}, Len(t_input)) = TProcs

\* The largest cluster, its ids given in an unsorted order, has built its
\* neighbours, and an inner node lists its parent and a full set of children.
C36_Witness ==
    /\ TopoBuilt
    /\ Len(t_input) = TopoMaxNodes
    /\ t_input # SortIds(t_input)
    /\ \E k \in TProcs :
          /\ t_neighbors[k].parent # <<>>
          /\ Len(t_neighbors[k].children) = Fanout
          /\ Len(t_neighbors[k].neighbors) = Fanout + 1

\* The neighbours the tree gives process x: those the Topology arm computes
\* from the sorted list of all node ids.
TreeNeighbors(x) ==
    LET nodes == SortIds(NodeIdList(Cardinality(DOMAIN g_id), 1))
    IN  SeqToSet(TopoNeighbors(nodes, BinarySearch(nodes, NodeId(x - 1))))

\* The value v is on its way from process x to the node y, or there already.
Covered(x, v, y) ==
    \/ v \in SeqToSet(BatchFor(x, y))
    \/ \E m \in Unacked(x) :
          m.type = "batch_broadcast" /\ m.dst = y /\ v \in SeqToSet(m.messages)
    \/ v \in g_known[GProcOf(y)]

\* C35: for every node x, every value v that x knows and every tree
\* neighbour y of x other than the peer x first received v from, v is in
\* the batch x keeps for y, or in an unacknowledged batchBroadcast from x
\* to y, or known to y already; also for values a client broadcasts to x
\* before x has handled its topology message.
C35_GossipCoverage ==
    \A x \in DOMAIN g_id : \A v \in g_known[x] :
       \A y \in TreeNeighbors(x) \ {g_first[x][v]} : Covered(x, v, y)

\* C35, for the values that x first received after it had handled its
\* topology message: the coverage holds for the neighbours x has built.
C35_CoverageOfBuiltNeighbors ==
    \A x \in DOMAIN g_id : \A v \in g_known[x] :
       \A y \in SeqToSet(g_neighbors[x]) \ {g_first[x][v]} :
          (\E i \in 1..Len(g_bcast) : g_bcast[i].value = v /\ g_bcast[i].built)
             => Covered(x, v, y)

====
